---------------------------- MODULE Spec2Model ----------------------------
(***************************************************************************)
(* A model of the signal-to-command pipeline of lightshow-threejs:         *)
(*   - BeatGrid and CueScheduler   (src/unnamed/part_001,                  *)
(*                                  src/src/audio/CueScheduler.ts)         *)
(*                                                                         *)
(* Numbers.  The program works on IEEE doubles; the model works on         *)
(* integers.  Times given to the BeatGrid are whole time units, a beat     *)
(* position (beat + phase) is counted in quanta of 1/PhaseRes beat, and    *)
(* the phase of getBeatAt is rounded down to a whole quantum.  For cues    *)
(* whose atBeat and repeat are whole quanta this rounding changes no       *)
(* decision of shouldFireCue: for integers n and R > 0,                    *)
(* floor(x) >= n <=> x >= n and floor(floor(x) / R) = floor(x / R).        *)
(*   - AudioAnalyzer transport and BeatDetector                            *)
(*                                 (src/src/audio/AudioAnalyzer.ts,        *)
(*                                  src/src/audio/BeatDetector.ts)         *)
(* Playback times are whole milliseconds, energies and spectral flux are   *)
(* hundredths, the tempo is counted in 1/TempoScale BPM (rounded down) and *)
(* the beat phase in 1/PhaseOne beat, which makes deltaTime / beatInterval *)
(* = deltaTime * currentTempo / 60000 a whole number.                      *)
(*   - ShowPlanner, RuleEvaluator, VariationSelector and MappingEngine     *)
(*                                 (src/src/mapping/rules/RuleEvaluator.ts,*)
(*                                  src/src/mapping/README.md,             *)
(*                                  src/unnamed/part_007)                  *)
(*   - BeatGrid.quantize on doubles, in an arithmetic that rounds every     *)
(*     result to FloatBits significant bits (src/unnamed/part_001)          *)
(*   - AdvancedAnalyzer.loadAndAnalyze, one step for each await             *)
(*                                 (src/src/audio/AdvancedAnalyzer.ts)      *)
(***************************************************************************)
EXTENDS Integers, Sequences, FiniteSets, TLC

VARIABLES
    \* ---- BeatGrid (constructor arguments, fixed for a run)
    beats,              \* BeatGrid.beats: sorted beat times, in time units
    beatInterval,       \* 60 / BeatGrid.bpm, in time units
    \* ---- CueScheduler
    cues,               \* CueScheduler.cues: id -> InternalCue
    cueIdCounter,       \* CueScheduler.cueIdCounter
    lastProcessedBeat,  \* CueScheduler.lastProcessedBeat, in quanta (-1 beat = -PhaseRes)
    enabled,            \* CueScheduler.enabled
    \* ---- what the last CueScheduler call did (observation only)
    cueOp,              \* the last CueScheduler operation: update, reset, clear, other
    cuesToFire,         \* ids of the cues the last update() returned, in order
    jumped,             \* the last processed update() advanced the position by 4 beats or more
    skipped,            \* update() calls made while disabled: passed, the cues whose
                        \* atBeat those of the last disabled stretch had reached;
                        \* resumed, an update() was processed since, and none after it
    \* ---- ShowPlanner
    plannerPlan,        \* ShowPlanner.currentPlan: NoPlan (null) or Some(plan)
    \* ---- what the last ShowPlanner calls were given and returned (observation only)
    analysisInput,      \* the PreAnalysisResult the last createPlan() was called with
    sceneQuery,         \* the time of the last getSceneAt() since the last createPlan() (NoQuery = none)
    sceneAt,            \* what it returned: an index into currentPlan.scenes, 0 = null
    \* ---- AudioAnalyzer (transport)
    playing,            \* AudioAnalyzer.playing
    pauseTime,          \* AudioAnalyzer.pauseTime, in ms
    playTime,           \* (audioContext.currentTime - startTime) * 1000 while playing, in ms
    endedPending,       \* a source node was stopped and its "ended" event is not yet delivered
    \* ---- BeatDetector
    detector,           \* the fields of AudioAnalyzer.beatDetector
    \* ---- the frames of the current session, i.e. since the last stop() (observation only)
    beatFrame,          \* the BeatInfo of the last frame: Null (none yet) or Some(info)
    prevBeatFrame,      \* the BeatInfo of the frame before it: Null or Some(info)
    frameCount,         \* frames produced so far
    transportCount,     \* pause(), seek() and stop() calls so far
    \* ---- MappingEngine
    engine,             \* the fields of MappingEngine (config.styleProfile as styleProfile)
    lastTriggerTimes,   \* engine.ruleEvaluator.lastTriggerTimes: rule id -> Null or Some(ms)
    variationSelector,  \* the fields of engine.variationSelector
    now,                \* Date.now() at the last process() call, in ms
    \* ---- the process() calls (observation only)
    processed,          \* Null, or Some of what the last process() call was given,
                        \* the state it found and which strategy it ran
    commands,           \* the commands it returned
    lastTrueEval,       \* rule id -> when the current RuleEvaluator last returned true for it
    previousCall,       \* the process() call before the last: its time and the origins
                        \* of its commands (recorded by ObservedProcess only)
    prevStrobeOn,       \* when the default path last triggered the strobes
    processCount,       \* process() calls so far
    strobeTimers,       \* setTimeout callbacks of the default path that have not run yet
    \* ---- a VariationSelector called on its own
    selector,           \* its fields
    picks,              \* pool -> Null, or Some name of the variation its last selection picked
    prevPicks,          \* pool -> the same for the selection before that one
    selectCount,        \* get...Response() calls so far
    selectorCall,       \* the last call on it: the method, the frame's isBeat and
                        \* spectralFlux, and whether a selection was made
    \* ---- a BeatGrid whose times are doubles (see "Rounded arithmetic")
    quantizeGrid,       \* its fields bpm and beats
    \* ---- the quantize() calls on it (observation only)
    quantizeCall,       \* Null, or Some of what the last quantize() was given, what it
                        \* returned and what getBeatAt() returns at the returned time
    \* ---- AdvancedAnalyzer (pre-analysis)
    loader,             \* its fields audioBuffer, preAnalysis, beatGrid and player, the
                        \* file and the position of the running loadAndAnalyze(), and
                        \* how the last one ended
    loadCount,          \* loadAndAnalyze() calls so far
    \* AdvancedAnalyzer.detectSections
    sectionBuffer,      \* the audioBuffer detectSections ran on (Null: none)
    detectedSections    \* the list it returned (Null before it ran)

beatVars == <<playing, pauseTime, playTime, endedPending, detector,
              beatFrame, prevBeatFrame, frameCount, transportCount>>

engineVars == <<engine, lastTriggerTimes, variationSelector, now,
                processed, commands, lastTrueEval, prevStrobeOn, processCount,
                strobeTimers,
               previousCall>>

selectorVars == <<selector, picks, prevPicks, selectCount, selectorCall>>

gridVars == <<quantizeGrid, quantizeCall>>

loadVars == <<loader, loadCount>>

sectionVars == <<sectionBuffer, detectedSections>>

plannerVars == <<plannerPlan, analysisInput, sceneQuery, sceneAt>>

cueVars == <<beats, beatInterval, cues, cueIdCounter, lastProcessedBeat, enabled,
             cueOp, cuesToFire, jumped, skipped>>

vars == <<cueVars, plannerVars, beatVars, engineVars, selectorVars, gridVars, loadVars,
          sectionVars>>

\* what the operations of one component leave alone
notCueVars == <<plannerVars, beatVars, engineVars, selectorVars, gridVars, loadVars,
    sectionVars>>
notPlannerVars == <<cueVars, beatVars, engineVars, selectorVars, gridVars, loadVars,
    sectionVars>>
notBeatVars == <<cueVars, plannerVars, engineVars, selectorVars, gridVars, loadVars,
    sectionVars>>
notEngineVars == <<cueVars, plannerVars, beatVars, selectorVars, gridVars, loadVars,
    sectionVars>>
notSelectorVars == <<cueVars, plannerVars, beatVars, engineVars, gridVars, loadVars,
    sectionVars>>
notGridVars == <<cueVars, plannerVars, beatVars, engineVars, selectorVars, loadVars,
    sectionVars>>
notLoadVars == <<cueVars, plannerVars, beatVars, engineVars, selectorVars, gridVars,
    sectionVars>>
notSectionVars == <<cueVars, plannerVars, beatVars, engineVars, selectorVars, gridVars,
    loadVars>>

----------------------------------------------------------------------------
\* Bounds of the model

\* quanta per beat in which beat positions are counted
PhaseRes == 2
\* update() is called with times 0 .. MaxTime
MaxTime == 14
\* at most MaxCues cues are ever added
MaxCues == 1
\* at most MaxFrames frames are analysed
MaxFrames == 14
\* at most MaxTransport pause(), seek() and stop() calls are made
MaxTransport == 2
\* the tempo is counted in 1/TempoScale BPM
TempoScale == 1000
\* generateCuesFromAnalysis() is called while fewer than MaxCueIds ids are used
MaxCueIds == 8
\* at most MaxSelect get...Response() calls are made on the VariationSelector
MaxSelect == 4
\* at most MaxProcess process() calls are made
MaxProcess == 2
\* Date.now() when the engine is constructed, in ms
ClockStart == 1000
\* significand bits of the rounded arithmetic (53 in the program)
FloatBits == 6
\* the smallest quantum of the rounded arithmetic is 2^-FracBits
FracBits == 8
\* quantize() is called with times up to MaxQuantizeTime seconds
MaxQuantizeTime == 6
\* at most MaxLoads loadAndAnalyze() calls are made
MaxLoads == 2
\* the longest of the short audio buffers, in quarter seconds
MaxDuration == 16

Max(a, b) == IF a >= b THEN a ELSE b
Min(a, b) == IF a <= b THEN a ELSE b
\* ceil(a / b) for b > 0
CeilDiv(a, b) == -((-a) \div b)

\* -1 beat, the initial value of lastProcessedBeat and lastFiredBeat
NoBeat == -PhaseRes

\* The beat grids a run may be constructed with: the synthetic grid of the
\* pre-analyzer (beats every 60/bpm from 0) and a grid whose first beat is late.
BeatGrids ==
    { [beats |-> <<0, 2, 4, 6>>, interval |-> 2],
      [beats |-> <<3, 5, 6>>,    interval |-> 2] }

\* The cue definitions addCue is called with: atBeat and repeat in quanta
\* (repeat 0 = fire once), name "auto_x" for a generated cue.
CueDefs ==
    { [atBeat |-> 4 * PhaseRes, repeat |-> 0,            name |-> "manual"],
      [atBeat |-> 0,            repeat |-> 2 * PhaseRes, name |-> "manual"],
      [atBeat |-> PhaseRes + 1, repeat |-> 0,            name |-> "manual"],
      [atBeat |-> PhaseRes + 1, repeat |-> PhaseRes,     name |-> "auto_accent"] }

----------------------------------------------------------------------------
\* BeatGrid.getBeatAt: [beat, phase] at time t; phase in quanta, rounded down

BracketIndex(bs, t) ==
    LET hits == { i \in 1 .. Len(bs) - 1 : t >= bs[i] /\ t < bs[i + 1] }
    IN  IF hits = {} THEN 1 ELSE CHOOSE i \in hits : \A j \in hits : i <= j

getBeatAt(bs, ivl, t) ==
    IF t < bs[1]
    THEN [beat |-> 0, phase |-> Max(0, (PhaseRes * t) \div bs[1])]
    ELSE IF t >= bs[Len(bs)]
    THEN LET timeSinceLastBeat == t - bs[Len(bs)]
             extraBeats == timeSinceLastBeat \div ivl
         IN  [beat  |-> (Len(bs) - 1) + extraBeats,
              phase |-> (PhaseRes * (timeSinceLastBeat % ivl)) \div ivl]
    ELSE LET i == BracketIndex(bs, t)
             currentBeatTime == bs[i]
             nextBeatTime == IF i < Len(bs) THEN bs[i + 1] ELSE currentBeatTime + ivl
             phase == (PhaseRes * (t - currentBeatTime)) \div (nextBeatTime - currentBeatTime)
         IN  [beat |-> i - 1, phase |-> Max(0, Min(PhaseRes, phase))]

\* currentBeat = beatInfo.beat + beatInfo.phase, in quanta
BeatPosition(bs, ivl, t) ==
    LET info == getBeatAt(bs, ivl, t) IN info.beat * PhaseRes + info.phase

----------------------------------------------------------------------------
\* CueScheduler

IsRepeating(cue) == cue.repeat # 0

\* shouldFireCue with the crossing test of a one-shot cue made strict
shouldFireCueStrict(cue, cur, lastBeat) ==
    IF ~IsRepeating(cue)
    THEN cur > cue.atBeat /\ lastBeat < cue.atBeat /\ cue.lastFiredBeat < cue.atBeat
    ELSE LET beatsSinceStart == cur - cue.atBeat
         IN  IF beatsSinceStart < 0
             THEN FALSE
             ELSE LET currentRepeatIndex == beatsSinceStart \div cue.repeat
                      lastRepeatIndex == (lastBeat - cue.atBeat) \div cue.repeat
                  IN  currentRepeatIndex > lastRepeatIndex /\ currentRepeatIndex >= 0

\* shouldFireCue firing a repeating cue whenever the beat position advanced
shouldFireCueElapsed(cue, cur, lastBeat) ==
    IF ~IsRepeating(cue)
    THEN cur >= cue.atBeat /\ lastBeat < cue.atBeat /\ cue.lastFiredBeat < cue.atBeat
    ELSE LET beatsSinceStart == cur - cue.atBeat
         IN  IF beatsSinceStart < 0
             THEN FALSE
             ELSE cur > lastBeat

shouldFireCue(cue, cur, lastBeat) ==
    IF ~IsRepeating(cue)
    THEN cur >= cue.atBeat /\ lastBeat < cue.atBeat /\ cue.lastFiredBeat < cue.atBeat
    ELSE LET beatsSinceStart == cur - cue.atBeat
         IN  IF beatsSinceStart < 0
             THEN FALSE
             ELSE LET currentRepeatIndex == beatsSinceStart \div cue.repeat
                      lastRepeatIndex == (lastBeat - cue.atBeat) \div cue.repeat
                  IN  currentRepeatIndex > lastRepeatIndex /\ currentRepeatIndex >= 0

\* the tracking update of a cue that fires at beat position cur
FiredCue(cue, cur) ==
    [cue EXCEPT
        !.lastFiredBeat = cur,
        !.nextFireBeat =
            IF cue.repeat > 0
            THEN cue.atBeat + CeilDiv(cur - cue.atBeat, cue.repeat) * cue.repeat
            ELSE @]

\* ids in insertion order (ids are handed out in increasing order)
RECURSIVE IdsInOrder(_)
IdsInOrder(S) ==
    IF S = {} THEN <<>>
    ELSE LET m == CHOOSE x \in S : \A y \in S : x <= y
         IN  <<m>> \o IdsInOrder(S \ {m})

AddCue(def) ==
    /\ UNCHANGED notCueVars
    /\ cueIdCounter < MaxCues
    /\ cues' = [id \in DOMAIN cues \cup {cueIdCounter} |->
                  IF id = cueIdCounter
                  THEN [atBeat |-> def.atBeat, repeat |-> def.repeat, name |-> def.name,
                        lastFiredBeat |-> NoBeat, nextFireBeat |-> def.atBeat]
                  ELSE cues[id]]
    /\ cueIdCounter' = cueIdCounter + 1
    /\ cueOp' = "other"
    /\ UNCHANGED <<skipped, beats, beatInterval, lastProcessedBeat, enabled, cuesToFire,
                   jumped>>

RemoveCue(cueId) ==
    /\ UNCHANGED notCueVars
    /\ cueId \in DOMAIN cues
    /\ cues' = [id \in DOMAIN cues \ {cueId} |-> cues[id]]
    /\ cueOp' = "other"
    /\ UNCHANGED <<skipped, beats, beatInterval, cueIdCounter, lastProcessedBeat, enabled,
                   cuesToFire, jumped>>

\* update() that processes the cues whether or not the scheduler is enabled
UpdateWhileDisabled(t) ==
    /\ UNCHANGED notCueVars
    /\ cueOp' = "update"
    /\ LET cur == BeatPosition(beats, beatInterval, t)
           fires(id) == shouldFireCue(cues[id], cur, lastProcessedBeat)
       IN  /\ cuesToFire' = IF enabled THEN SelectSeq(IdsInOrder(DOMAIN cues), fires)
                            ELSE <<>>
           /\ cues' = [id \in DOMAIN cues |->
                         IF fires(id) THEN FiredCue(cues[id], cur) ELSE cues[id]]
           /\ lastProcessedBeat' = cur
           /\ jumped' = (cur - lastProcessedBeat >= 4 * PhaseRes)
    /\ UNCHANGED <<beats, beatInterval, cueIdCounter, enabled>>

Update(t) ==
    /\ UNCHANGED notCueVars
    /\ cueOp' = "update"
    /\ IF ~enabled
       THEN /\ cuesToFire' = <<>>
            /\ UNCHANGED <<cues, lastProcessedBeat, jumped>>
       ELSE LET cur == BeatPosition(beats, beatInterval, t)
                fires(id) == shouldFireCue(cues[id], cur, lastProcessedBeat)
            IN  /\ cuesToFire' = SelectSeq(IdsInOrder(DOMAIN cues), fires)
                /\ cues' = [id \in DOMAIN cues |->
                              IF fires(id) THEN FiredCue(cues[id], cur) ELSE cues[id]]
                /\ lastProcessedBeat' = cur
                /\ jumped' = (cur - lastProcessedBeat >= 4 * PhaseRes)
    /\ UNCHANGED <<beats, beatInterval, cueIdCounter, enabled>>

\* update(t), with the record of the calls made while disabled
ObservedUpdate(t) ==
    /\ Update(t)
    /\ skipped' = IF enabled
                  THEN IF skipped.resumed THEN [passed |-> {}, resumed |-> FALSE]
                       ELSE [skipped EXCEPT !.resumed = skipped.passed # {}]
                  ELSE LET cur == BeatPosition(beats, beatInterval, t)
                           reached == {id \in DOMAIN cues : cues[id].atBeat <= cur}
                       IN [passed |-> IF skipped.resumed THEN reached
                                      ELSE skipped.passed \cup reached,
                           resumed |-> FALSE]

\* update(t), the calls made while disabled not recorded
PlainUpdate(t) ==
    /\ Update(t)
    /\ UNCHANGED skipped

SetEnabled(b) ==
    /\ UNCHANGED notCueVars
    /\ enabled' = b
    /\ cueOp' = "other"
    /\ UNCHANGED <<skipped, beats, beatInterval, cues, cueIdCounter, lastProcessedBeat,
                   cuesToFire, jumped>>

CueClear ==
    /\ UNCHANGED notCueVars
    /\ cues' = <<>>
    /\ lastProcessedBeat' = NoBeat
    /\ cueOp' = "clear"
    /\ jumped' = FALSE
    /\ UNCHANGED <<skipped, beats, beatInterval, cueIdCounter, enabled, cuesToFire>>

\* reset() leaving each cue's lastFiredBeat as it is
CueResetKeepFired ==
    /\ UNCHANGED notCueVars
    /\ lastProcessedBeat' = NoBeat
    /\ cues' = [id \in DOMAIN cues |-> [cues[id] EXCEPT !.nextFireBeat = cues[id].atBeat]]
    /\ cueOp' = "reset"
    /\ jumped' = FALSE
    /\ UNCHANGED <<skipped, beats, beatInterval, cueIdCounter, enabled, cuesToFire>>

CueReset ==
    /\ UNCHANGED notCueVars
    /\ lastProcessedBeat' = NoBeat
    /\ cues' = [id \in DOMAIN cues |->
                  [cues[id] EXCEPT !.lastFiredBeat = NoBeat,
                                   !.nextFireBeat = cues[id].atBeat]]
    /\ cueOp' = "reset"
    /\ jumped' = FALSE
    /\ UNCHANGED <<skipped, beats, beatInterval, cueIdCounter, enabled, cuesToFire>>

\* name.startsWith(prefix)
startsWith(name, prefix) ==
    Len(name) >= Len(prefix) /\ SubSeq(name, 1, Len(prefix)) = prefix

\* The PreAnalysisResults generateCuesFromAnalysis is called with; section
\* times are in the time unit of update()
CueAnalyses ==
    { [bpm |-> 120, averageEnergy |-> 70,
       sections |-> << [start |-> 4, end |-> 10, type |-> "drop", energy |-> 90] >>],
      [bpm |-> 120, averageEnergy |-> 30,
       sections |-> << [start |-> 0, end |-> 4,  type |-> "intro", energy |-> 30],
                       [start |-> 4, end |-> 12, type |-> "verse", energy |-> 50] >>],
      [bpm |-> 120, averageEnergy |-> 30, sections |-> << >>] }

\* a cue generateCuesFromAnalysis adds: atBeat = startBeat + num/den beats
\* (rounded down to the quantum), repeat in beats (0 = none)
AutoCue(startBeat, num, den, repeatBeats, name) ==
    [atBeat |-> startBeat * PhaseRes + (num * PhaseRes) \div den,
     repeat |-> repeatBeats * PhaseRes, name |-> name]

\* the cues of the switch on section.type, in the order they are added
sectionTemplate(type, startBeat) ==
    CASE type = "intro"     -> << AutoCue(startBeat, 0, 1, 0, "auto_intro_fade") >>
      [] type = "verse"     -> << AutoCue(startBeat, 0, 1, 4, "auto_verse_pulse") >>
      [] type = "chorus"    -> << AutoCue(startBeat, 0, 1, 0, "auto_chorus_color"),
                                  AutoCue(startBeat, 0, 1, 4, "auto_chorus_flash"),
                                  AutoCue(startBeat, 0, 1, 8, "auto_chorus_sweep") >>
      [] type = "drop"      -> << AutoCue(startBeat, 0, 1, 0, "auto_drop_all_on"),
                                  AutoCue(startBeat, 1, 2, 1, "auto_drop_strobe"),
                                  AutoCue(startBeat, 0, 1, 4, "auto_drop_movement") >>
      [] type = "breakdown" -> << AutoCue(startBeat, 0, 1, 0, "auto_breakdown_blackout"),
                                  AutoCue(startBeat, 0, 1, 8, "auto_breakdown_color") >>
      [] type = "outro"     -> << AutoCue(startBeat, 0, 1, 0, "auto_outro_fade") >>
      [] OTHER              -> << >>

\* the cues added for one section: its template and, above energy 0.7, an accent
sectionCues(bs, ivl, section) ==
    LET startBeat == getBeatAt(bs, ivl, section.start).beat
    IN  sectionTemplate(section.type, startBeat)
        \o (IF section.energy > 70
            THEN << AutoCue(startBeat, 1, 4, 2, "auto_" \o section.type \o "_accent") >>
            ELSE << >>)

\* all the cues generateCuesFromAnalysis adds, in order
RECURSIVE sectionsCues(_, _, _)
sectionsCues(bs, ivl, sections) ==
    IF sections = << >> THEN << >>
    ELSE sectionCues(bs, ivl, Head(sections)) \o sectionsCues(bs, ivl, Tail(sections))

generatedCues(bs, ivl, analysis) ==
    sectionsCues(bs, ivl, analysis.sections)
    \o (IF analysis.averageEnergy > 60
        THEN << AutoCue(0, 0, 1, 16, "auto_global_strobe") >> ELSE << >>)

\* generateCuesFromAnalysis(analysis): the cues named auto_... are deleted,
\* then each generated cue is added with addCue
GenerateCuesFromAnalysis(analysis) ==
    LET kept == {id \in DOMAIN cues : ~startsWith(cues[id].name, "auto_")}
        new == generatedCues(beats, beatInterval, analysis)
        newIds == cueIdCounter .. cueIdCounter + Len(new) - 1
    IN  /\ UNCHANGED notCueVars
        /\ cueIdCounter < MaxCueIds
        /\ cues' = [id \in kept \cup newIds |->
                      IF id \in newIds
                      THEN LET def == new[id - cueIdCounter + 1]
                           IN  [atBeat |-> def.atBeat, repeat |-> def.repeat,
                                name |-> def.name, lastFiredBeat |-> NoBeat,
                                nextFireBeat |-> def.atBeat]
                      ELSE cues[id]]
        /\ cueIdCounter' = cueIdCounter + Len(new)
        /\ cueOp' = "generate"
        /\ UNCHANGED <<skipped, beats, beatInterval, lastProcessedBeat, enabled, cuesToFire,
                       jumped>>

\* the update() times between regenerations
RegenerationTimes == {1, 5, 9, 13}

\* a scheduler whose cues are regenerated: at most MaxCues cues are added by
\* hand, before the first generation
RegenerationNext ==
    \/ \E def \in CueDefs : AddCue(def)
    \/ \E analysis \in CueAnalyses : GenerateCuesFromAnalysis(analysis)
    \/ \E t \in RegenerationTimes : PlainUpdate(t)

CueInit ==
    /\ \E g \in BeatGrids : beats = g.beats /\ beatInterval = g.interval
    /\ cues = <<>>
    /\ cueIdCounter = 0
    /\ lastProcessedBeat = NoBeat
    /\ enabled = TRUE
    /\ cueOp = "new"
    /\ cuesToFire = <<>>
    /\ jumped = FALSE
    /\ skipped = [passed |-> {}, resumed |-> FALSE]

CueNext ==
    \/ \E def \in CueDefs : AddCue(def)
    \/ \E id \in 0 .. MaxCues - 1 : RemoveCue(id)
    \/ \E t \in 0 .. MaxTime : PlainUpdate(t)
    \/ \E b \in BOOLEAN : SetEnabled(b)
    \/ CueClear
    \/ CueReset

\* the times update() is called at while the scheduler is switched off and on
DisabledTimes == {t \in 0 .. MaxTime : t % 3 # 1}

\* the CueScheduler switched off and on, with the disabled calls of update()
\* recorded
DisabledNext ==
    \/ \E def \in CueDefs : AddCue(def)
    \/ \E t \in DisabledTimes : ObservedUpdate(t)
    \/ \E b \in BOOLEAN : SetEnabled(b)
    \/ CueReset

----------------------------------------------------------------------------
\* ShowPlanner.  Times are in half seconds (32.5 s = 65), energies in
\* hundredths, flakeIntensity in thousandths.  A scene's look is the name of
\* its template; its palette (five colours computed from the look, two of
\* them with random jitter) is left out with all other colours.

\* null, for a field that holds a plan, a result or a profile: such a field is
\* modelled as a sequence that is empty (null) or holds the one value
Null == << >>
Some(x) == <<x>>
NoPlan == Null
NoQuery == -1

\* The PreAnalysisResults createPlan is called with.  Their section lists are
\* all ordered and non-overlapping: the documented four-section example, the
\* empty list, a list with a gap between two sections, a list that starts
\* after 0, a list with a breakdown, a drop and a buildup at a fast tempo, a
\* list in which a breakdown follows a chorus and a buildup, and a list in
\* which an outro follows a drop.
Analyses ==
    { [bpm |-> 128, averageEnergy |-> 60,
       sections |-> << [start |-> 0,   end |-> 32,  type |-> "intro",  energy |-> 30],
                       [start |-> 32,  end |-> 96,  type |-> "verse",  energy |-> 50],
                       [start |-> 96,  end |-> 160, type |-> "chorus", energy |-> 80],
                       [start |-> 160, end |-> 192, type |-> "drop",   energy |-> 95] >>],
      [bpm |-> 120, averageEnergy |-> 30, sections |-> << >>],
      [bpm |-> 120, averageEnergy |-> 45,
       sections |-> << [start |-> 0,  end |-> 32, type |-> "intro", energy |-> 30],
                       [start |-> 40, end |-> 96, type |-> "verse", energy |-> 50] >>],
      [bpm |-> 120, averageEnergy |-> 45,
       sections |-> << [start |-> 8,  end |-> 64, type |-> "verse", energy |-> 55] >>],
      [bpm |-> 150, averageEnergy |-> 75,
       sections |-> << [start |-> 4,  end |-> 16, type |-> "breakdown", energy |-> 20],
                       [start |-> 16, end |-> 32, type |-> "drop",      energy |-> 90],
                       [start |-> 32, end |-> 48, type |-> "buildup",   energy |-> 60],
                       [start |-> 48, end |-> 64, type |-> "outro",     energy |-> 20] >>],
      [bpm |-> 128, averageEnergy |-> 55,
       sections |-> << [start |-> 0,   end |-> 32,  type |-> "chorus",    energy |-> 80],
                       [start |-> 32,  end |-> 48,  type |-> "breakdown", energy |-> 20],
                       [start |-> 48,  end |-> 64,  type |-> "buildup",   energy |-> 60],
                       [start |-> 64,  end |-> 72,  type |-> "breakdown", energy |-> 20] >>],
      [bpm |-> 128, averageEnergy |-> 55,
       sections |-> << [start |-> 0,   end |-> 32,  type |-> "drop",      energy |-> 95],
                       [start |-> 32,  end |-> 48,  type |-> "outro",     energy |-> 20] >>] }

\* The times getSceneAt is asked about
QueryTimes == {0, 4, 32, 36, 65, 96, 192, 200}

SECTION_LOOK_TEMPLATES(type) ==
    CASE type = "intro"     -> <<"deep-blue", "minimal", "ethereal", "purple-haze">>
      [] type = "verse"     -> <<"deep-blue", "minimal", "electric-teal", "sunset">>
      [] type = "chorus"    -> <<"fire", "rave", "electric-teal", "sunset">>
      [] type = "drop"      -> <<"fire", "rave", "ethereal">>
      [] type = "breakdown" -> <<"minimal", "deep-blue", "ethereal">>
      [] type = "buildup"   -> <<"electric-teal", "purple-haze", "sunset">>
      [] type = "bridge"    -> <<"minimal", "purple-haze", "deep-blue">>
      [] type = "outro"     -> <<"minimal", "ethereal", "deep-blue">>
      [] OTHER              -> <<"minimal">>

selectGlobalTheme(analysis) ==
    IF analysis.averageEnergy > 70 THEN "High Energy"
    ELSE IF analysis.averageEnergy > 40 THEN "Balanced"
    ELSE "Atmospheric"

\* base intensity of a section type, in hundredths
baseIntensity(type) ==
    CASE type = "intro"     -> 20
      [] type = "verse"     -> 40
      [] type = "chorus"    -> 75
      [] type = "drop"      -> 100
      [] type = "breakdown" -> 15
      [] type = "buildup"   -> 60
      [] type = "bridge"    -> 50
      [] type = "outro"     -> 30
      [] OTHER              -> 50

\* combined = base * 0.7 + energy * 0.3, here in thousandths
determineIntensity(type, energy) ==
    LET combined == baseIntensity(type) * 7 + energy * 3
    IN  IF combined < 300 THEN "low"
        ELSE IF combined < 600 THEN "medium"
        ELSE IF combined < 850 THEN "high"
        ELSE "extreme"

determineFeatures(type, energy, bpm) ==
    LET isFastTempo == bpm > 140
        quiet(mh, wash) ==
            [useFlakes |-> FALSE, flakeIntensity |-> 0, useStrobes |-> FALSE,
             movingHeadPattern |-> mh, washPattern |-> wash]
    IN  CASE type = "intro"     -> quiet("slow", "static")
          [] type = "chorus"    ->
                [useFlakes |-> TRUE, flakeIntensity |-> 600, useStrobes |-> energy > 60,
                 movingHeadPattern |-> IF isFastTempo THEN "fast" ELSE "medium",
                 washPattern |-> "pulse"]
          [] type = "drop"      ->
                [useFlakes |-> TRUE, flakeIntensity |-> 1000, useStrobes |-> TRUE,
                 movingHeadPattern |-> "fast", washPattern |-> "chase"]
          [] type = "breakdown" -> quiet("slow", "static")
          [] type = "buildup"   ->
                [useFlakes |-> energy > 50, flakeIntensity |-> energy * 7,
                 useStrobes |-> FALSE, movingHeadPattern |-> "medium",
                 washPattern |-> "pulse"]
          [] type = "bridge"    -> quiet("slow", "pulse")
          [] type = "outro"     ->
                [useFlakes |-> energy > 50, flakeIntensity |-> energy * 4,
                 useStrobes |-> FALSE, movingHeadPattern |-> "slow",
                 washPattern |-> "static"]
          [] OTHER              -> quiet("slow", "pulse")   \* templates.verse

\* a scene that ends where its section starts
createSceneEndAtStart(section, bpm, lookName) ==
    [startTime   |-> section.start,
     endTime     |-> section.start,
     sectionType |-> section.type,
     look        |-> lookName,
     intensity   |-> determineIntensity(section.type, section.energy),
     features    |-> determineFeatures(section.type, section.energy, bpm)]

\* lookName is the template the random draw picked
createSceneFromSection(section, bpm, lookName) ==
    [startTime   |-> section.start,
     endTime     |-> section.end,
     sectionType |-> section.type,
     look        |-> lookName,
     intensity   |-> determineIntensity(section.type, section.energy),
     features    |-> determineFeatures(section.type, section.energy, bpm)]

\* the test for a breakdown target comes first
createTransitionCutFirst(fromScene, toScene, fromIndex, toIndex) ==
    LET lowish(x) == x \in {"low", "medium"}
        highish(x) == x \in {"high", "extreme"}
        kind ==
            IF toScene.sectionType = "breakdown" THEN <<"cut", 50>>
            ELSE IF fromScene.sectionType = "breakdown" /\ toScene.sectionType = "drop"
            THEN <<"explosion", 100>>
            ELSE IF fromScene.sectionType = "buildup" THEN <<"build", 300>>
            ELSE IF lowish(fromScene.intensity) /\ highish(toScene.intensity)
            THEN <<"build", 400>>
            ELSE IF highish(fromScene.intensity) /\ lowish(toScene.intensity)
            THEN <<"fade", 800>>
            ELSE <<"fade", 500>>
    IN  [fromSceneIndex |-> fromIndex, toSceneIndex |-> toIndex,
         startTime |-> fromScene.endTime, durationMs |-> kind[2], type |-> kind[1]]

createTransition(fromScene, toScene, fromIndex, toIndex) ==
    LET lowish(x) == x \in {"low", "medium"}
        highish(x) == x \in {"high", "extreme"}
        kind ==
            IF fromScene.sectionType = "breakdown" /\ toScene.sectionType = "drop"
            THEN <<"explosion", 100>>
            ELSE IF fromScene.sectionType = "buildup" THEN <<"build", 300>>
            ELSE IF toScene.sectionType = "breakdown" THEN <<"cut", 50>>
            ELSE IF lowish(fromScene.intensity) /\ highish(toScene.intensity)
            THEN <<"build", 400>>
            ELSE IF highish(fromScene.intensity) /\ lowish(toScene.intensity)
            THEN <<"fade", 800>>
            ELSE <<"fade", 500>>
    IN  [fromSceneIndex |-> fromIndex, toSceneIndex |-> toIndex,
         startTime |-> fromScene.endTime, durationMs |-> kind[2], type |-> kind[1]]

\* the plan createPlan builds when the random draws pick looks[i] for section i
\* (scene indices are 1-based here, 0-based in the program)
createPlan(analysis, looks) ==
    LET scenes == [i \in 1 .. Len(analysis.sections) |->
                      createSceneFromSection(analysis.sections[i], analysis.bpm, looks[i])]
        transitions == [i \in 1 .. Len(scenes) - 1 |->
                           createTransition(scenes[i], scenes[i + 1], i, i + 1)]
    IN  [scenes |-> scenes, transitions |-> transitions,
         globalTheme |-> selectGlobalTheme(analysis)]

\* every way the random draws can pick one look per section
LookChoices(sections) ==
    { looks \in [1 .. Len(sections) -> {"deep-blue", "minimal", "ethereal", "purple-haze",
                                         "electric-teal", "sunset", "fire", "rave"}] :
        \A i \in 1 .. Len(sections) :
            \E k \in DOMAIN SECTION_LOOK_TEMPLATES(sections[i].type) :
                looks[i] = SECTION_LOOK_TEMPLATES(sections[i].type)[k] }

\* getSceneAt that takes the last scene whenever no scene contains the time
getSceneAtOrLast(plan, time) ==
    IF plan = NoPlan THEN 0
    ELSE LET scenes == plan[1].scenes
             hits == { i \in 1 .. Len(scenes) :
                         time >= scenes[i].startTime /\ time < scenes[i].endTime }
         IN  IF hits # {} THEN CHOOSE i \in hits : \A j \in hits : i <= j
             ELSE Len(scenes)

\* index of the scene returned, 0 for null
getSceneAt(plan, time) ==
    IF plan = NoPlan THEN 0
    ELSE LET scenes == plan[1].scenes
             hits == { i \in 1 .. Len(scenes) :
                         time >= scenes[i].startTime /\ time < scenes[i].endTime }
         IN  IF hits # {} THEN CHOOSE i \in hits : \A j \in hits : i <= j
             ELSE IF Len(scenes) > 0 /\ time >= scenes[Len(scenes)].endTime
             THEN Len(scenes)
             ELSE 0

CreatePlan(analysis, looks) ==
    /\ plannerPlan' = Some(createPlan(analysis, looks))
    /\ analysisInput' = Some(analysis)
    /\ sceneQuery' = NoQuery
    /\ sceneAt' = 0
    /\ UNCHANGED notPlannerVars

GetSceneAt(time) ==
    /\ sceneQuery' = time
    /\ sceneAt' = getSceneAt(plannerPlan, time)
    /\ UNCHANGED <<plannerPlan, analysisInput>>
    /\ UNCHANGED notPlannerVars

PlannerInit ==
    /\ plannerPlan = NoPlan
    /\ analysisInput = Null
    /\ sceneQuery = NoQuery
    /\ sceneAt = 0

PlannerNext ==
    \/ \E analysis \in Analyses : \E looks \in LookChoices(analysis.sections) :
          CreatePlan(analysis, looks)
    \/ \E time \in QueryTimes : GetSceneAt(time)

----------------------------------------------------------------------------
\* BeatDetector and the transport of AudioAnalyzer.

\* BeatDetector.config, as AudioAnalyzer constructs it (BPM, frames, ms)
minTempo == 60
maxTempo == 200
\* beatThreshold 1.3, in tenths
beatThresholdTenths == 13
historySize == 43
minBeatInterval == 200
beatsPerBar == 4
\* registerBeat keeps this many beat times
maxBeatHistory == 32
\* updateTempo quantizes beat intervals to buckets of this many ms
quantizationMs == 10
\* detectBeat needs this many energies in the history before it reports a beat
minHistory == 10

\* one beat, in the unit of phaseAccumulator
PhaseOne == 60000 * TempoScale

\* The loaded track: its length and the features the FeatureExtractor
\* measures at a playback position (quiet, then loud from LoudFrom on).
Duration == 13 * 300
LoudFrom == 9 * 300
energy(t) == IF t >= LoudFrom THEN 90 ELSE 10
spectralFlux(t) == IF t >= LoudFrom THEN 80 ELSE 5

\* the time between two animation frames, in ms
FrameSteps == {100, 300}
\* the arguments seek() is called with, in ms
SeekTimes == {0, 300 * 8, 300 * 20}

RECURSIVE SeqSum(_)
SeqSum(q) == IF q = <<>> THEN 0 ELSE Head(q) + SeqSum(Tail(q))

\* Math.round(interval / quantizationMs) * quantizationMs, for interval >= 0
Quantize(interval) ==
    ((2 * interval + quantizationMs) \div (2 * quantizationMs)) * quantizationMs

NewDetector ==
    [energyHistory |-> <<>>, beatTimes |-> <<>>, lastBeatTime |-> 0, beatNumber |-> 0,
     currentTempo |-> 120 * TempoScale, lastFrameTime |-> 0, phaseAccumulator |-> 0]

registerBeat(d, timestamp) ==
    LET pushed == Append(d.beatTimes, timestamp)
    IN [d EXCEPT !.lastBeatTime = timestamp,
                 !.beatTimes = IF Len(pushed) > maxBeatHistory THEN Tail(pushed) ELSE pushed,
                 !.beatNumber = @ + 1,
                 !.phaseAccumulator = 0]

\* the most common quantized interval; of several, the one met first
ModeInterval(beatTimes) ==
    LET quantized == [i \in 1 .. Len(beatTimes) - 1 |->
                          Quantize(beatTimes[i + 1] - beatTimes[i])]
        Count(q) == Cardinality({i \in DOMAIN quantized : quantized[i] = q})
        First(q) == CHOOSE i \in DOMAIN quantized :
                        quantized[i] = q /\ \A j \in 1 .. i - 1 : quantized[j] # q
        best == CHOOSE i \in DOMAIN quantized :
                    /\ First(quantized[i]) = i
                    /\ \A j \in DOMAIN quantized :
                          \/ Count(quantized[j]) < Count(quantized[i])
                          \/ Count(quantized[j]) = Count(quantized[i])
                             /\ i <= First(quantized[j])
    IN quantized[best]

updateTempo(d) ==
    IF Len(d.beatTimes) < 4 THEN d
    ELSE LET modeInterval == ModeInterval(d.beatTimes)
         IN IF /\ modeInterval > 0
               /\ 60000 >= minTempo * modeInterval
               /\ 60000 <= maxTempo * modeInterval
            THEN [d EXCEPT !.currentTempo =
                     (9 * @ + (60000 * TempoScale) \div modeInterval) \div 10]
            ELSE d

\* detectBeat without the test of the time since the last beat
detectBeatNoDebounce(d, e, flux, timestamp) ==
    LET pushed == Append(d.energyHistory, e)
        history == IF Len(pushed) > historySize THEN Tail(pushed) ELSE pushed
        n == Len(history)
        \* avgEnergy + 0.0001, times 10000 n
        avgScaled == 100 * SeqSum(history) + n
        \* energyRatio * 0.7 + spectralFlux * 0.3 > beatThreshold
        isBeat == /\ 70000 * e * n + 3 * flux * avgScaled
                        > 100 * beatThresholdTenths * avgScaled
                  /\ n >= minHistory
        d1 == [d EXCEPT !.energyHistory = history]
        d2 == IF isBeat THEN registerBeat(d1, timestamp) ELSE d1
        d3 == updateTempo(d2)
        deltaTime == timestamp - d3.lastFrameTime
        acc == d3.phaseAccumulator + deltaTime * d3.currentTempo
        phase == IF acc >= PhaseOne THEN acc - (acc \div PhaseOne) * PhaseOne ELSE acc
    IN [detector |-> [d3 EXCEPT !.phaseAccumulator = phase, !.lastFrameTime = timestamp],
        info |-> [isBeat |-> isBeat,
                  isDownbeat |-> isBeat /\ d3.beatNumber % beatsPerBar = 0,
                  tempo |-> d3.currentTempo,
                  beatPhase |-> phase,
                  beatNumber |-> d3.beatNumber]]

\* detectBeat(energy, spectralFlux, timestamp): the detector after the call
\* and the BeatInfo it returns
detectBeat(d, e, flux, timestamp) ==
    LET pushed == Append(d.energyHistory, e)
        history == IF Len(pushed) > historySize THEN Tail(pushed) ELSE pushed
        n == Len(history)
        \* avgEnergy + 0.0001, times 10000 n
        avgScaled == 100 * SeqSum(history) + n
        \* energyRatio * 0.7 + spectralFlux * 0.3 > beatThreshold
        isBeat == /\ 70000 * e * n + 3 * flux * avgScaled
                        > 100 * beatThresholdTenths * avgScaled
                  /\ timestamp - d.lastBeatTime > minBeatInterval
                  /\ n >= minHistory
        d1 == [d EXCEPT !.energyHistory = history]
        d2 == IF isBeat THEN registerBeat(d1, timestamp) ELSE d1
        d3 == updateTempo(d2)
        deltaTime == timestamp - d3.lastFrameTime
        acc == d3.phaseAccumulator + deltaTime * d3.currentTempo
        phase == IF acc >= PhaseOne THEN acc - (acc \div PhaseOne) * PhaseOne ELSE acc
    IN [detector |-> [d3 EXCEPT !.phaseAccumulator = phase, !.lastFrameTime = timestamp],
        info |-> [isBeat |-> isBeat,
                  isDownbeat |-> isBeat /\ d3.beatNumber % beatsPerBar = 0,
                  tempo |-> d3.currentTempo,
                  beatPhase |-> phase,
                  beatNumber |-> d3.beatNumber]]

\* one run of the animation loop's analyze(): getCurrentFrame() at timestamp
Analyze(timestamp) ==
    LET r == detectBeat(detector, energy(timestamp), spectralFlux(timestamp), timestamp)
    IN /\ detector' = r.detector
       /\ prevBeatFrame' = beatFrame
       /\ beatFrame' = Some(r.info)
       /\ frameCount' = frameCount + 1

\* play(): start a source at pauseTime; the animation loop analyses at once
Play ==
    /\ ~playing
    /\ frameCount < MaxFrames
    /\ playing' = TRUE
    /\ playTime' = pauseTime
    /\ Analyze(pauseTime)
    /\ UNCHANGED <<pauseTime, endedPending, transportCount>>
    /\ UNCHANGED notBeatVars

\* pause(): remember the position and stop the source
Pause ==
    /\ playing
    /\ transportCount < MaxTransport
    /\ pauseTime' = playTime
    /\ playing' = FALSE
    /\ endedPending' = TRUE
    /\ transportCount' = transportCount + 1
    /\ UNCHANGED <<playTime, detector, beatFrame, prevBeatFrame, frameCount>>
    /\ UNCHANGED notBeatVars

\* seek(timeMs): pause() if playing, move pauseTime, play() again if it was playing
Seek(timeMs) ==
    LET target == Max(0, Min(timeMs, Duration))
    IN /\ transportCount < MaxTransport
       /\ playing => frameCount < MaxFrames
       /\ pauseTime' = target
       /\ transportCount' = transportCount + 1
       /\ IF playing
          THEN /\ endedPending' = TRUE
               /\ playTime' = target
               /\ Analyze(target)
               /\ UNCHANGED playing
          ELSE UNCHANGED <<playing, playTime, endedPending, detector,
                           beatFrame, prevBeatFrame, frameCount>>
       /\ UNCHANGED notBeatVars

\* the animation frame callback, dt ms after the previous frame
Tick(dt) ==
    /\ playing
    /\ frameCount < MaxFrames
    /\ playTime + dt <= Duration
    /\ playTime' = playTime + dt
    /\ Analyze(playTime + dt)
    /\ UNCHANGED <<playing, pauseTime, endedPending, transportCount>>
    /\ UNCHANGED notBeatVars

\* what stop() does to the analyzer and the detector (reset() keeps the tempo)
Stopped ==
    /\ playing' = FALSE
    /\ pauseTime' = 0
    /\ detector' = [NewDetector EXCEPT !.currentTempo = detector.currentTempo]
    /\ beatFrame' = Null
    /\ prevBeatFrame' = Null
    /\ UNCHANGED <<playTime, frameCount>>

\* stop()
Stop ==
    /\ transportCount < MaxTransport
    /\ Stopped
    /\ endedPending' = (endedPending \/ playing)
    /\ transportCount' = transportCount + 1
    /\ UNCHANGED notBeatVars

\* sourceNode.onended: the source played to its end, or the "ended" event of
\* a source stopped earlier arrives; stop() if the analyzer is playing
OnEnded ==
    /\ endedPending \/ (playing /\ playTime = Duration)
    /\ endedPending' = FALSE
    /\ IF playing
       THEN Stopped
       ELSE UNCHANGED <<playing, pauseTime, playTime, detector,
                        beatFrame, prevBeatFrame, frameCount>>
    /\ UNCHANGED transportCount
    /\ UNCHANGED notBeatVars

BeatInit ==
    /\ playing = FALSE
    /\ pauseTime = 0
    /\ playTime = 0
    /\ endedPending = FALSE
    /\ detector = NewDetector
    /\ beatFrame = Null
    /\ prevBeatFrame = Null
    /\ frameCount = 0
    /\ transportCount = 0

BeatNext ==
    \/ Play
    \/ Pause
    \/ \E timeMs \in SeekTimes : Seek(timeMs)
    \/ \E dt \in FrameSteps : Tick(dt)
    \/ Stop
    \/ OnEnded

----------------------------------------------------------------------------
\* MappingEngine with its RuleEvaluator, its VariationSelector and its
\* ShowPlanner (plannerPlan is engine.showPlanner.currentPlan).  Times are in
\* ms, frame features in hundredths, intensities in thousandths, rule
\* probabilities and random draws in thousandths.  A command is modelled by
\* its targetId, its origin (the rule, variation or step that built it), the
\* intensity it sets (NoValue if none) and its transitionMs; colours,
\* positions, rates and easings are left out.

NoValue == -1

\* RuleEvaluator.evaluate: minimum ms between two triggers of one rule
minInterval == 50
\* RuleEvaluator.evaluate: a frequency band counts from this energy on (0.5)
bandThreshold == 50
\* MappingEngine.config defaults: strobeMinInterval in ms, reactivity in tenths
strobeMinInterval == 100
reactivityTenths == 7
\* processDefaultMapping: a strobe needs spectralFlux above this (0.7)
strobeFluxThreshold == 70

Range(q) == {q[i] : i \in DOMAIN q}

CountIn(q, Test(_)) == Cardinality({i \in DOMAIN q : Test(q[i])})

Command(targetId, origin, intensity, transitionMs) ==
    [targetId |-> targetId, origin |-> origin,
     intensity |-> intensity, transitionMs |-> transitionMs]

\* The frames process() is called with: a quiet frame early in a verse, a
\* beat with high flux in a chorus, a downbeat in a drop.
Frames ==
    { [timestamp |-> 1000, isBeat |-> FALSE, isDownbeat |-> FALSE, beatNumber |-> 3,
       rms |-> 20, energy |-> 20, spectralFlux |-> 10,
       lowEnergy |-> 30, midEnergy |-> 20, highEnergy |-> 10, section |-> "verse"],
      [timestamp |-> 18000, isBeat |-> TRUE, isDownbeat |-> FALSE, beatNumber |-> 35,
       rms |-> 70, energy |-> 60, spectralFlux |-> 75,
       lowEnergy |-> 60, midEnergy |-> 50, highEnergy |-> 40, section |-> "chorus"],
      [timestamp |-> 85000, isBeat |-> TRUE, isDownbeat |-> TRUE, beatNumber |-> 180,
       rms |-> 100, energy |-> 95, spectralFlux |-> 90,
       lowEnergy |-> 90, midEnergy |-> 60, highEnergy |-> 70, section |-> "drop"] }

\* The fixtures registerFixtures is called with
Rig ==
    << [id |-> "mh1", type |-> "moving_head"], [id |-> "mh2", type |-> "moving_head"],
       [id |-> "st1", type |-> "strobe"],      [id |-> "w1",  type |-> "wash"] >>
FixtureSets == {Rig}

FixtureTypes == {"moving_head", "strobe", "wash", "laser", "par"}

\* ms between two process() calls, by Date.now()
ClockSteps == {30, 50}
\* what Math.random() returns, in thousandths: its least and a greatest value
Draws == {0, 999}

\* A trigger without conditions; an optional field is Null or Some(value)
AnyFrame ==
    [onBeat |-> Null, onDownbeat |-> Null, energyThreshold |-> Null,
     fluxThreshold |-> Null, sections |-> << >>, frequencyBand |-> Null,
     customCondition |-> Null]

Undefined == [kind |-> "undefined", value |-> 0]
FromEnergy == [kind |-> "from_energy", value |-> 0]
Value(n) == [kind |-> "value", value |-> n]

StyleAction(type, targets, intensity, movement, durationMs) ==
    [type |-> type, targets |-> targets, intensity |-> intensity,
     movement |-> movement, durationMs |-> durationMs]

StyleRule(id, trigger, action, probability, priority) ==
    [id |-> id, trigger |-> trigger, action |-> action,
     probability |-> probability, priority |-> priority]

\* The StyleProfiles loadStyle is called with
Profiles ==
    { [name |-> "club", rules |-> <<
          StyleRule("never", [AnyFrame EXCEPT !.onBeat = Some(TRUE)],
                    StyleAction("strobe", << >>, Value(1000), Null, 100), 0, 1),
          StyleRule("pulse", [AnyFrame EXCEPT !.energyThreshold = Some(50)],
                    StyleAction("intensity_pulse", <<"wash", "strobe">>, FromEnergy, Null, 100),
                    1000, 3),
          StyleRule("sweep", AnyFrame,
                    StyleAction("movement", << >>, Undefined, Some("random"), 200),
                    1000, 2) >>],
      [name |-> "festival", rules |-> <<
          StyleRule("flash", [AnyFrame EXCEPT !.onDownbeat = Some(TRUE), !.sections = <<"drop">>],
                    StyleAction("all_on", <<"mh1", "st1">>, Undefined, Null, 50), 1000, 2),
          StyleRule("dim", [AnyFrame EXCEPT !.frequencyBand = Some("low")],
                    StyleAction("blackout", <<"wash">>, Undefined, Null, 300), 500, 2),
          StyleRule("still", [AnyFrame EXCEPT !.fluxThreshold = Some(50)],
                    StyleAction("movement", <<"moving_head">>, Undefined, Null, 200), 1000, 1),
          StyleRule("tint", [AnyFrame EXCEPT !.customCondition = Some("energy > 0.5")],
                    StyleAction("color_change", << >>, Undefined, Null, 400), 1000, 0),
          StyleRule("lasers", [AnyFrame EXCEPT !.onBeat = Some(TRUE)],
                    StyleAction("strobe", <<"laser">>, Value(1000), Null, 100), 1000, 0) >>] }

RuleIds == UNION { {p.rules[i].id : i \in DOMAIN p.rules} : p \in Profiles }

----------------------------------------------------------------------------
\* RuleEvaluator

getBandEnergy(frame, band) ==
    CASE band = "low"  -> frame.lowEnergy
      [] band = "mid"  -> frame.midEnergy
      [] band = "high" -> frame.highEnergy
      [] OTHER         -> frame.energy

\* the conditions evaluate() checks on the frame, before the rate limit
TriggerSatisfied(trigger, frame) ==
    /\ trigger.onBeat # Null => trigger.onBeat[1] = frame.isBeat
    /\ trigger.onDownbeat # Null => trigger.onDownbeat[1] = frame.isDownbeat
    /\ trigger.energyThreshold # Null => ~(frame.energy < trigger.energyThreshold[1])
    /\ trigger.fluxThreshold # Null => ~(frame.spectralFlux < trigger.fluxThreshold[1])
    /\ Len(trigger.sections) > 0 => frame.section \in Range(trigger.sections)
    /\ trigger.frequencyBand # Null =>
          ~(getBandEnergy(frame, trigger.frequencyBand[1]) < bandThreshold)
    /\ trigger.customCondition = Null

\* evaluate() without the rate limit
evaluateNoRateLimit(rule, frame, triggers, time) ==
    LET ok == TriggerSatisfied(rule.trigger, frame)
    IN  [result |-> ok,
         triggers |-> IF ok THEN [triggers EXCEPT ![rule.id] = Some(time)] ELSE triggers]

\* evaluate(rule, frame) at Date.now() = time: its result and lastTriggerTimes after it
evaluate(rule, frame, triggers, time) ==
    LET lastTrigger == IF triggers[rule.id] = Null THEN 0 ELSE triggers[rule.id][1]
        ok == /\ TriggerSatisfied(rule.trigger, frame)
              /\ ~(time - lastTrigger < minInterval)
    IN  [result |-> ok,
         triggers |-> IF ok THEN [triggers EXCEPT ![rule.id] = Some(time)] ELSE triggers]

resolveIntensity(spec, frame) ==
    CASE spec.kind = "undefined"   -> 800
      [] spec.kind = "from_energy" -> Max(200, Min(1000, 10 * frame.energy))
      [] OTHER                     -> Max(0, Min(1000, spec.value))

\* targets that match no fixture stand for every fixture
resolveTargetsOrAll(targets, fixtures) ==
    LET OfType(f) == f.type \in Range(targets)
        OfId(f) == f.id \in Range(targets)
        named == IF Len(targets) > 0 /\ targets[1] \in FixtureTypes
                 THEN SelectSeq(fixtures, OfType) ELSE SelectSeq(fixtures, OfId)
    IN  IF named = << >> THEN fixtures ELSE named

resolveTargets(targets, fixtures) ==
    IF Len(targets) = 0 THEN fixtures
    ELSE IF targets[1] \in FixtureTypes
    THEN LET OfType(f) == f.type \in Range(targets) IN SelectSeq(fixtures, OfType)
    ELSE LET OfId(f) == f.id \in Range(targets) IN SelectSeq(fixtures, OfId)

\* one command of rule ruleId for each of the fixtures
PerFixture(fixtures, ruleId, intensity, transitionMs) ==
    [i \in DOMAIN fixtures |-> Command(fixtures[i].id, ruleId, intensity, transitionMs)]

executeStrobe(action, fixtures, frame, ruleId) ==
    PerFixture(fixtures, ruleId, resolveIntensity(action.intensity, frame), 0)

executeColorChange(action, fixtures, ruleId) ==
    PerFixture(fixtures, ruleId, NoValue, action.durationMs)

executeIntensityPulse(action, fixtures, frame, ruleId) ==
    PerFixture(fixtures, ruleId, resolveIntensity(action.intensity, frame),
               (action.durationMs * 3) \div 10)

\* executeMovement that moves every fixture
executeMovementAll(action, fixtures, ruleId) ==
    IF action.movement = Null THEN << >>
    ELSE PerFixture(fixtures, ruleId, NoValue, action.durationMs)

executeMovement(action, fixtures, ruleId) ==
    IF action.movement = Null THEN << >>
    ELSE LET MovingHead(f) == f.type = "moving_head"
         IN  PerFixture(SelectSeq(fixtures, MovingHead), ruleId, NoValue, action.durationMs)

executeBlackout(action, fixtures, ruleId) ==
    PerFixture(fixtures, ruleId, 0, Min(action.durationMs, 100))

\* action.intensity || 1: an intensity of 0 counts as absent
executeAllOn(action, fixtures, frame, ruleId) ==
    LET spec == IF action.intensity.kind = "undefined"
                   \/ (action.intensity.kind = "value" /\ action.intensity.value = 0)
                THEN Value(1000) ELSE action.intensity
    IN  PerFixture(fixtures, ruleId, resolveIntensity(spec, frame), action.durationMs)

executeAction(action, frame, fixtures, ruleId) ==
    LET targetFixtures == resolveTargets(action.targets, fixtures)
    IN  CASE action.type = "strobe"          -> executeStrobe(action, targetFixtures, frame, ruleId)
          [] action.type = "color_change"    -> executeColorChange(action, targetFixtures, ruleId)
          [] action.type = "intensity_pulse" -> executeIntensityPulse(action, targetFixtures, frame, ruleId)
          [] action.type = "movement"        -> executeMovement(action, targetFixtures, ruleId)
          [] action.type = "blackout"        -> executeBlackout(action, targetFixtures, ruleId)
          [] action.type = "all_on"          -> executeAllOn(action, targetFixtures, frame, ruleId)
          [] OTHER                           -> << >>

----------------------------------------------------------------------------
\* MappingEngine: the style path

\* [...rules].sort((a, b) => b.priority - a.priority): stable, higher first
RECURSIVE sortByPriority(_)
sortByPriority(rules) ==
    IF rules = << >> THEN << >>
    ELSE LET first == CHOOSE i \in DOMAIN rules :
                          /\ \A j \in DOMAIN rules : rules[j].priority <= rules[i].priority
                          /\ \A j \in 1 .. i - 1 : rules[j].priority < rules[i].priority
             Rest(k) == IF k < first THEN rules[k] ELSE rules[k + 1]
         IN  <<rules[first]>> \o sortByPriority([k \in 1 .. Len(rules) - 1 |-> Rest(k)])

\* the loop of processStyleRules with the rate-limit window of a rule kept
\* open when its probability draw fails
RECURSIVE styleRulesFromDrawnOnly(_, _, _, _, _, _, _, _)
styleRulesFromDrawnOnly(sortedRules, k, frame, e, time, draws, triggers, done) ==
    IF k > Len(sortedRules)
    THEN [path |-> "style", commands |-> done.commands, engine |-> e,
          triggers |-> triggers, evals |-> done.evals, timers |-> 0]
    ELSE LET rule == sortedRules[k]
             ev == evaluate(rule, frame, triggers, time)
         IN  styleRulesFromDrawnOnly(sortedRules, k + 1, frame, e, time, draws,
                 IF ev.result /\ draws[k] > rule.probability THEN triggers ELSE ev.triggers,
                 [commands |-> done.commands \o
                      (IF ev.result /\ draws[k] <= rule.probability
                       THEN executeAction(rule.action, frame, e.fixtures, rule.id)
                       ELSE << >>),
                  evals |-> Append(done.evals, [id |-> rule.id, result |-> ev.result])])

\* the loop of processStyleRules from rule k on, given the commands and the
\* results of evaluate() so far and the evaluator's lastTriggerTimes;
\* draws[k] is what Math.random() returns for rule k if it is called
RECURSIVE styleRulesFrom(_, _, _, _, _, _, _, _)
styleRulesFrom(sortedRules, k, frame, e, time, draws, triggers, done) ==
    IF k > Len(sortedRules)
    THEN [path |-> "style", commands |-> done.commands, engine |-> e,
          triggers |-> triggers, evals |-> done.evals, timers |-> 0]
    ELSE LET rule == sortedRules[k]
             ev == evaluate(rule, frame, triggers, time)
         IN  styleRulesFrom(sortedRules, k + 1, frame, e, time, draws, ev.triggers,
                 [commands |-> done.commands \o
                      (IF ev.result /\ draws[k] <= rule.probability
                       THEN executeAction(rule.action, frame, e.fixtures, rule.id)
                       ELSE << >>),
                  evals |-> Append(done.evals, [id |-> rule.id, result |-> ev.result])])

processStyleRules(e, triggers, frame, time, draws) ==
    styleRulesFrom(sortByPriority(e.styleProfile[1].rules), 1, frame, e, time, draws,
                   triggers, [commands |-> << >>, evals |-> << >>])

----------------------------------------------------------------------------
\* MappingEngine: the default path

\* lerp(a, b, t) with t in tenths
lerp(a, b, tenths) == a + ((b - a) * Max(0, Min(10, tenths))) \div 10

\* the strobe fires on high flux whatever the time since the last one
strobeTriggeredOnFlux(frame, time, lastStrobeTime, interval) ==
    frame.spectralFlux > strobeFluxThreshold

\* step 7: high spectral flux and more than the minimum interval since the last strobe
strobeTriggered(frame, time, lastStrobeTime, interval) ==
    /\ frame.spectralFlux > strobeFluxThreshold
    /\ time - lastStrobeTime > interval

\* a beat is answered by the pulse alone
beatPulseOnly(smoothed) ==
    << Command("all", "beat-pulse", 1000, 50) >>

\* step 3 of processDefaultMapping on a beat: pulse to full intensity, then
\* return to the smoothed intensity
beatPulse(smoothed) ==
    << Command("all", "beat-pulse", 1000, 50),
       Command("all", "beat-return", smoothed, 150) >>

processDefaultMapping(e, triggers, frame, time) ==
    LET smoothed == lerp(e.smoothedIntensity, 10 * frame.rms, reactivityTenths)
        MovingHead(f) == f.type = "moving_head"
        Strobe(f) == f.type = "strobe"
        movingHeads == SelectSeq(e.fixtures, MovingHead)
        strobes == SelectSeq(e.fixtures, Strobe)
        beat == IF frame.isBeat /\ e.beatSync
                THEN beatPulse(smoothed)
                ELSE << Command("all", "intensity", smoothed, 100) >>
        tilt == PerFixture(movingHeads, "tilt", NoValue, 200)
        downbeat == IF frame.isDownbeat
                    THEN << Command("all", "downbeat-color", NoValue, 300) >> ELSE << >>
        strobe == strobeTriggered(frame, time, e.lastStrobeTime, e.strobeMinInterval)
        newBeat == frame.beatNumber # e.lastBeatNumber
    IN  [path |-> "default",
         commands |-> beat \o tilt \o downbeat
                      \o (IF strobe THEN PerFixture(strobes, "strobe", 1000, 0) ELSE << >>)
                      \o (IF newBeat THEN PerFixture(movingHeads, "pan", NoValue, 500) ELSE << >>),
         engine |-> [e EXCEPT
                       !.smoothedIntensity = smoothed,
                       !.currentColorIndex = IF frame.isDownbeat THEN (@ + 1) % 6 ELSE @,
                       !.lastStrobeTime = IF strobe THEN time ELSE @,
                       !.lastBeatNumber = IF newBeat THEN frame.beatNumber ELSE @],
         triggers |-> triggers, evals |-> << >>,
         \* setTimeout(..., 100) after a strobe
         timers |-> IF strobe THEN 1 ELSE 0]

----------------------------------------------------------------------------
\* VariationSelector and its variation tables (weights in tenths)

Variation(name, weight) == [name |-> name, weight |-> weight]

BEAT_VARIATIONS ==
    << Variation("intensity-pulse", 30), Variation("flash-all", 15),
       Variation("color-shift", 20), Variation("moving-head-snap", 25),
       Variation("strobe-accent", 10) >>

ENERGY_VARIATIONS ==
    << Variation("brightness-scale", 40), Variation("beam-spread", 25),
       Variation("color-warmth", 20), Variation("movement-speed", 30) >>

SPECTRAL_VARIATIONS ==
    << Variation("frequency-color-map", 30), Variation("bass-intensity", 25),
       Variation("treble-movement", 20), Variation("spectral-flux-strobe", 15) >>

SECTION_VARIATIONS ==
    << Variation("breakdown-minimal", 50), Variation("drop-explosion", 50),
       Variation("buildup-crescendo", 50) >>

\* the number of movingHeadPositions of a predefined look
LookPositions(look) ==
    CASE look = "minimal"     -> 2
      [] look = "rave"        -> 5
      [] look = "purple-haze" -> 3
      [] OTHER                -> 4

RECURSIVE TotalWeight(_)
TotalWeight(variations) ==
    IF variations = << >> THEN 0
    ELSE Head(variations).weight + TotalWeight(Tail(variations))

\* selectVariation when Math.random() returns draw: the first variation at
\* which random * totalWeight minus the weights so far is <= 0, else the last
selectVariation(variations, draw) ==
    LET Reached(i) == draw * TotalWeight(variations)
                          <= 1000 * TotalWeight(SubSeq(variations, 1, i))
    IN  IF \E i \in DOMAIN variations : Reached(i)
        THEN variations[CHOOSE i \in DOMAIN variations :
                            Reached(i) /\ \A j \in 1 .. i - 1 : ~Reached(j)]
        ELSE variations[Len(variations)]

\* baseIntensity of the beat and energy variations
variationBase(scene) ==
    CASE scene.intensity = "low"    -> 300
      [] scene.intensity = "medium" -> 600
      [] scene.intensity = "high"   -> 800
      [] OTHER                      -> 1000

\* variation.respond(frame, scene) followed by convertPartialCommands
respond(name, frame, scene) ==
    CASE name = "intensity-pulse" ->
            << Command("all", name, Min(1000, variationBase(scene) + 300), 50),
               Command("all", name, variationBase(scene), 200) >>
      [] name = "flash-all" ->
            << Command("all", name, 1000, 30), Command("all", name, 500, 150) >>
      [] name = "color-shift" -> << Command("wash", name, NoValue, 150) >>
      [] name = "moving-head-snap" -> << Command("moving_head", name, NoValue, 100) >>
      [] name = "strobe-accent" ->
            IF ~scene.features.useStrobes THEN << >>
            ELSE << Command("strobe", name, 1000, 0), Command("strobe", name, 0, 0) >>
      [] name = "brightness-scale" ->
            << Command("all", name, (variationBase(scene) * (100 + frame.energy)) \div 200, 200) >>
      [] name = "beam-spread" -> << Command("moving_head", name, NoValue, 300) >>
      [] name = "color-warmth" -> << Command("wash", name, NoValue, 400) >>
      [] name = "movement-speed" -> << Command("moving_head", name, NoValue, 500) >>
      [] name = "frequency-color-map" -> << Command("moving_head", name, NoValue, 250) >>
      [] name = "bass-intensity" -> << Command("wash", name, 8 * frame.lowEnergy, 100) >>
      [] name = "treble-movement" ->
            IF LookPositions(scene.look) = 0 THEN << >>
            ELSE << Command("moving_head", name, NoValue, 200) >>
      [] name = "spectral-flux-strobe" ->
            IF frame.spectralFlux < 60 \/ ~scene.features.useStrobes THEN << >>
            ELSE << Command("strobe", name, 10 * frame.spectralFlux, 50) >>
      [] name = "breakdown-minimal" ->
            IF scene.sectionType # "breakdown" THEN << >>
            ELSE << Command("strobe", name, 0, 500), Command("moving_head", name, 200, 500) >>
      [] name = "drop-explosion" ->
            IF scene.sectionType # "drop" THEN << >>
            ELSE << Command("all", name, 1000, 50) >>
      [] name = "buildup-crescendo" ->
            \* progress = (frame.timestamp - scene.startTime) / (scene.endTime - scene.startTime),
            \* the timestamp in ms and the scene's times in seconds
            IF scene.sectionType # "buildup" THEN << >>
            ELSE << Command("all", name,
                            300 + (700 * (2 * frame.timestamp - scene.startTime))
                                      \div (scene.endTime - scene.startTime), 300) >>
      [] OTHER -> << >>

NewSelector == [lastBeatVariation |-> "", lastEnergyVariation |-> "", beatCounter |-> 0]

\* getBeatResponse choosing among all the beat variations
getBeatResponseAnyVariation(sel, frame, scene, draw) ==
    IF ~frame.isBeat THEN [commands |-> << >>, selector |-> sel]
    ELSE LET variation == selectVariation(BEAT_VARIATIONS, draw)
         IN  [commands |-> respond(variation.name, frame, scene),
              selector |-> [sel EXCEPT !.beatCounter = @ + 1,
                                       !.lastBeatVariation = variation.name]]

getBeatResponse(sel, frame, scene, draw) ==
    IF ~frame.isBeat THEN [commands |-> << >>, selector |-> sel]
    ELSE LET Other(v) == v.name # sel.lastBeatVariation
             variation == selectVariation(SelectSeq(BEAT_VARIATIONS, Other), draw)
         IN  [commands |-> respond(variation.name, frame, scene),
              selector |-> [sel EXCEPT !.beatCounter = @ + 1,
                                       !.lastBeatVariation = variation.name]]

getEnergyResponse(sel, frame, scene, draw) ==
    IF sel.beatCounter % 2 # 0 THEN [commands |-> << >>, selector |-> sel]
    ELSE LET Other(v) == v.name # sel.lastEnergyVariation
             variation == selectVariation(SelectSeq(ENERGY_VARIATIONS, Other), draw)
         IN  [commands |-> respond(variation.name, frame, scene),
              selector |-> [sel EXCEPT !.lastEnergyVariation = variation.name]]

getSpectralResponse(sel, frame, scene, draw) ==
    IF frame.spectralFlux < 40 THEN << >>
    ELSE respond(selectVariation(SPECTRAL_VARIATIONS, draw).name, frame, scene)

getSectionResponse(sel, frame, scene, draw) ==
    IF sel.beatCounter % 4 # 0 THEN << >>
    ELSE respond(selectVariation(SECTION_VARIATIONS, draw).name, frame, scene)

----------------------------------------------------------------------------
\* MappingEngine: the show-plan path and process()

getSceneIntensity(scene) ==
    CASE scene.intensity = "low"     -> 300
      [] scene.intensity = "medium"  -> 600
      [] scene.intensity = "high"    -> 850
      [] scene.intensity = "extreme" -> 1000
      [] OTHER                       -> 500

applySceneBase(scene, frame) ==
    << Command("wash", "scene-wash", getSceneIntensity(scene), 300) >>
    \o (IF LookPositions(scene.look) > 0
        THEN << Command("moving_head", "scene-moving-head", NoValue, 500) >> ELSE << >>)
    \o (IF ~scene.features.useStrobes
        THEN << Command("strobe", "scene-strobe-off", 0, 200) >> ELSE << >>)

applyVariations(sel, frame, scene, draws) ==
    LET beat == getBeatResponse(sel, frame, scene, draws[1])
        energy_ == getEnergyResponse(beat.selector, frame, scene, draws[2])
    IN  [commands |-> beat.commands \o energy_.commands
                      \o getSpectralResponse(energy_.selector, frame, scene, draws[3])
                      \o getSectionResponse(energy_.selector, frame, scene, draws[4]),
         selector |-> energy_.selector]

\* the scene comes from the engine's own ShowPlanner; frame.timestamp / 1000
\* is a time in seconds, here rounded down to half seconds
processWithShowPlan(e, triggers, sel, showPlan, frame, draws) ==
    LET index == getSceneAt(showPlan, frame.timestamp \div 500)
        scene == showPlan[1].scenes[index]
        variations == applyVariations(sel, frame, scene, draws)
    IN  IF index = 0
        THEN [path |-> "plan", commands |-> << >>, engine |-> e,
              triggers |-> triggers, evals |-> << >>, timers |-> 0, selector |-> sel]
        ELSE [path |-> "plan",
              commands |-> applySceneBase(scene, frame) \o variations.commands,
              engine |-> e, triggers |-> triggers, evals |-> << >>, timers |-> 0,
              selector |-> variations.selector]

\* the style path is tried before the show plan
selectStrategyStyleFirst(currentPlan, styleProfile) ==
    IF styleProfile # Null THEN "style"
    ELSE IF currentPlan # Null THEN "plan"
    ELSE "default"

\* the if / else if / else of process()
selectStrategy(currentPlan, styleProfile) ==
    IF currentPlan # Null THEN "plan"
    ELSE IF styleProfile # Null THEN "style"
    ELSE "default"

\* the end of process(): the state is updated and the commands are returned
\* (commandHistory, which only getState() reads, is left out)
processed_(r, sel, frame) ==
    [path |-> r.path, commands |-> r.commands, evals |-> r.evals,
     triggers |-> r.triggers, timers |-> r.timers,
     selector |-> IF r.path = "plan" THEN r.selector ELSE sel,
     engine |-> [r.engine EXCEPT !.lastFrame = Some(frame)]]

\* process(frame) at Date.now() = time with the random numbers draws: what
\* the strategy it ran reports, the commands and the engine's state after it
process(e, triggers, sel, showPlan, frame, time, draws) ==
    LET strategy == selectStrategy(e.currentPlan, e.styleProfile)
    IN  processed_(CASE strategy = "plan" ->
                           processWithShowPlan(e, triggers, sel, showPlan, frame, draws)
                     [] strategy = "style" ->
                           processStyleRules(e, triggers, frame, time, draws)
                     [] OTHER -> processDefaultMapping(e, triggers, frame, time),
                   sel, frame)

\* the random numbers a process() call may ask for, one for each of the four
\* variation pools in the show-plan path and one for each rule in the style
\* path: within one call Math.random() returns all low or all high numbers
RandomDraws(e) ==
    LET n == IF e.currentPlan # Null THEN 4
             ELSE IF e.styleProfile # Null THEN Len(e.styleProfile[1].rules)
             ELSE 0
    IN  {[k \in 1 .. n |-> d] : d \in Draws}

NewEvaluator == [id \in RuleIds |-> Null]

\* process() is called at most MaxProcess times; the engine is configured
\* only while a process() call is still to come
CallsLeft == processCount < MaxProcess

\* the process() call before the coming one: its time and the origins of
\* the commands it returned
NoCallBefore == [time |-> NoValue, contributed |-> {}]
PreviousCall ==
    IF processed = Null THEN NoCallBefore
    ELSE [time |-> processed[1].time,
          contributed |-> {commands[k].origin : k \in DOMAIN commands}]

Process(frame, dt, draws) ==
    /\ CallsLeft
    /\ \E r \in {process(engine, lastTriggerTimes, variationSelector, plannerPlan,
                          frame, now + dt, draws)} :
        LET time == now + dt
            StrobeOn(c) == \E i \in DOMAIN engine.fixtures :
                               /\ engine.fixtures[i].type = "strobe"
                               /\ engine.fixtures[i].id = c.targetId
            TrueFor(id) == \E k \in DOMAIN r.evals :
                               r.evals[k].id = id /\ r.evals[k].result
        IN
        /\ now' = time
        /\ strobeTimers' = strobeTimers + r.timers
        /\ engine' = r.engine
        /\ lastTriggerTimes' = r.triggers
        /\ variationSelector' = r.selector
        /\ commands' = r.commands
        /\ processed' = Some([frame |-> frame, time |-> time, path |-> r.path,
                              evals |-> r.evals, timers |-> r.timers,
                              hadPlan |-> engine.currentPlan # Null,
                              styleProfile |-> engine.styleProfile,
                              fixtures |-> engine.fixtures,
                              strobeMinInterval |-> engine.strobeMinInterval,
                              lastTrueEval |-> lastTrueEval,
                              prevStrobeOn |-> prevStrobeOn])
        /\ lastTrueEval' = [id \in RuleIds |->
                               IF TrueFor(id) THEN Some(time) ELSE lastTrueEval[id]]
        /\ prevStrobeOn' = IF /\ r.path = "default"
                              /\ CountIn(r.commands, StrobeOn) > 0 \/ r.timers > 0
                           THEN Some(time) ELSE prevStrobeOn
        /\ processCount' = processCount + 1
        /\ UNCHANGED notEngineVars

\* process(), the call before it recorded
ObservedProcess(frame, dt, draws) ==
    /\ Process(frame, dt, draws)
    /\ previousCall' = PreviousCall

\* process(), the call before it not recorded
PlainProcess(frame, dt, draws) ==
    /\ Process(frame, dt, draws)
    /\ UNCHANGED previousCall

\* the callback of the setTimeout in processDefaultMapping: it filters the
\* strobe fixtures and does nothing with them
StrobeTimeout ==
    /\ strobeTimers > 0
    /\ strobeTimers' = strobeTimers - 1
    /\ UNCHANGED <<engine, lastTriggerTimes, variationSelector, now, processed,
                   commands, lastTrueEval, prevStrobeOn, processCount, previousCall>>
    /\ UNCHANGED notEngineVars

RegisterFixtures(fixtures) ==
    /\ CallsLeft
    /\ engine' = [engine EXCEPT !.fixtures = fixtures]
    /\ UNCHANGED <<lastTriggerTimes, variationSelector, now, processed, commands,
                   lastTrueEval, prevStrobeOn, processCount, previousCall, strobeTimers>>
    /\ UNCHANGED notEngineVars

\* loadStyle(profile): the profile and a new RuleEvaluator
LoadStyle(profile) ==
    /\ CallsLeft
    /\ engine' = [engine EXCEPT !.styleProfile = Some(profile)]
    /\ lastTriggerTimes' = NewEvaluator
    /\ lastTrueEval' = NewEvaluator
    /\ UNCHANGED <<variationSelector, now, processed, commands, prevStrobeOn,
                   processCount, previousCall, strobeTimers>>
    /\ UNCHANGED notEngineVars

ClearStyle ==
    /\ CallsLeft
    /\ engine' = [engine EXCEPT !.styleProfile = Null]
    /\ lastTriggerTimes' = NewEvaluator
    /\ lastTrueEval' = NewEvaluator
    /\ UNCHANGED <<variationSelector, now, processed, commands, prevStrobeOn,
                   processCount, previousCall, strobeTimers>>
    /\ UNCHANGED notEngineVars

\* the partial configurations configure() is called with
ConfigUpdates ==
    { [strobeMinInterval |-> Some(40),
       styleProfile |-> Some(CHOOSE p \in Profiles : p.name = "club")] }

\* configure(config): merge, and a new RuleEvaluator if config has a styleProfile
Configure(config) ==
    /\ CallsLeft
    /\ engine' = [engine EXCEPT
                    !.strobeMinInterval =
                        IF config.strobeMinInterval # Null
                        THEN config.strobeMinInterval[1] ELSE @,
                    !.styleProfile =
                        IF config.styleProfile # Null THEN config.styleProfile ELSE @]
    /\ IF config.styleProfile # Null
       THEN lastTriggerTimes' = NewEvaluator /\ lastTrueEval' = NewEvaluator
       ELSE UNCHANGED <<lastTriggerTimes, lastTrueEval>>
    /\ UNCHANGED <<variationSelector, now, processed, commands, prevStrobeOn,
                   processCount, previousCall, strobeTimers>>
    /\ UNCHANGED notEngineVars

LoadShowPlan(plan) ==
    /\ CallsLeft
    /\ engine' = [engine EXCEPT !.currentPlan = Some(plan)]
    /\ variationSelector' = NewSelector
    /\ UNCHANGED <<lastTriggerTimes, now, processed, commands, lastTrueEval,
                   prevStrobeOn, processCount, previousCall, strobeTimers>>
    /\ UNCHANGED notEngineVars

ClearShowPlan ==
    /\ CallsLeft
    /\ engine' = [engine EXCEPT !.currentPlan = Null]
    /\ variationSelector' = NewSelector
    /\ UNCHANGED <<lastTriggerTimes, now, processed, commands, lastTrueEval,
                   prevStrobeOn, processCount, previousCall, strobeTimers>>
    /\ UNCHANGED notEngineVars

\* the PreAnalysisResult the engine's ShowPlanner plans: the one with a
\* breakdown, a drop and a buildup
EngineAnalyses == {a \in Analyses : Len(a.sections) >= 2 /\ a.sections[1].end < 32}
\* the look the random draw picks for each section: the first of its templates
FirstLooks(sections) ==
    [i \in 1 .. Len(sections) |-> SECTION_LOOK_TEMPLATES(sections[i].type)[1]]

\* the plans loadShowPlan is called with: the one the engine's ShowPlanner
\* made last
LoadablePlans == Range(plannerPlan)

EngineInit ==
    /\ engine = [currentPlan |-> Null, styleProfile |-> Null, fixtures |-> << >>,
                 strobeMinInterval |-> strobeMinInterval, beatSync |-> TRUE,
                 lastFrame |-> Null, lastStrobeTime |-> 0,
                 currentColorIndex |-> 0, smoothedIntensity |-> 0, lastBeatNumber |-> 0]
    /\ lastTriggerTimes = NewEvaluator
    /\ variationSelector = NewSelector
    /\ now = ClockStart
    /\ processed = Null
    /\ commands = << >>
    /\ lastTrueEval = NewEvaluator
    /\ prevStrobeOn = Null
    /\ processCount = 0
    /\ strobeTimers = 0
    /\ previousCall = NoCallBefore

EngineNext ==
    \/ \E frame \in Frames : \E dt \in ClockSteps : \E draws \in RandomDraws(engine) :
          PlainProcess(frame, dt, draws)
    \/ StrobeTimeout
    \/ \E fixtures \in FixtureSets : RegisterFixtures(fixtures)
    \/ \E profile \in Profiles : LoadStyle(profile)
    \/ ClearStyle
    \/ \E config \in ConfigUpdates : Configure(config)
    \/ \E plan \in LoadablePlans : LoadShowPlan(plan)
    \/ ClearShowPlan
    \/ \E analysis \in EngineAnalyses :
          CallsLeft /\ CreatePlan(analysis, FirstLooks(analysis.sections))

\* the engine driven through its style interface, with the call before each
\* process() recorded
RateLimitNext ==
    \/ \E frame \in Frames : \E dt \in ClockSteps : \E draws \in RandomDraws(engine) :
          ObservedProcess(frame, dt, draws)
    \/ \E fixtures \in FixtureSets : RegisterFixtures(fixtures)
    \/ \E profile \in Profiles : LoadStyle(profile)
    \/ ClearStyle
    \/ \E config \in ConfigUpdates : Configure(config)

\* the plans loadShowPlan can be given: a ShowPlan is a plain value, made by
\* the engine's ShowPlanner or by any other one
ShowPlans == {createPlan(analysis, FirstLooks(analysis.sections)) : analysis \in EngineAnalyses}

\* the engine driven through its show-plan interface only
ShowPlanNext ==
    \/ \E frame \in Frames : \E dt \in ClockSteps : \E draws \in RandomDraws(engine) :
          PlainProcess(frame, dt, draws)
    \/ \E plan \in ShowPlans : LoadShowPlan(plan)
    \/ ClearShowPlan
    \/ \E analysis \in EngineAnalyses :
          CallsLeft /\ CreatePlan(analysis, FirstLooks(analysis.sections))

----------------------------------------------------------------------------
\* VariationSelector called on its own

\* the scenes the responses are asked for: the breakdown and the drop of a plan
SelectorScenes ==
    LET analysis == CHOOSE a \in EngineAnalyses : TRUE
        plan == createPlan(analysis, FirstLooks(analysis.sections))
    IN  {scene \in Range(plan.scenes) : scene.sectionType \in {"breakdown", "drop"}}

Pools == {"beat", "energy", "spectral", "section"}

\* the variation a response shows to have been picked, if it has commands
Shown(response) == IF response = << >> THEN Null ELSE Some(response[1].origin)

\* a selection was made from the pool and picked pick (Null if it does not show)
Selected(pool, pick) ==
    /\ prevPicks' = [prevPicks EXCEPT ![pool] = picks[pool]]
    /\ picks' = [picks EXCEPT ![pool] = pick]

\* what is recorded of a call: selected tells whether selectVariation ran
Called(method, frame, selected) ==
    [method |-> method, isBeat |-> frame.isBeat, spectralFlux |-> frame.spectralFlux,
     selected |-> selected]
NoCall == [method |-> "none", isBeat |-> FALSE, spectralFlux |-> 0, selected |-> FALSE]

GetBeatResponse(frame, scene, draw) ==
    /\ selectCount < MaxSelect
    /\ \E r \in {getBeatResponse(selector, frame, scene, draw)} :
          /\ selector' = r.selector
          /\ IF frame.isBeat THEN Selected("beat", Some(r.selector.lastBeatVariation))
             ELSE UNCHANGED <<picks, prevPicks>>
          /\ selectorCall' = Called("beat", frame, r.selector # selector)
    /\ selectCount' = selectCount + 1
    /\ UNCHANGED notSelectorVars

GetEnergyResponse(frame, scene, draw) ==
    /\ selectCount < MaxSelect
    /\ \E r \in {getEnergyResponse(selector, frame, scene, draw)} :
          /\ selector' = r.selector
          /\ IF selector.beatCounter % 2 = 0
             THEN Selected("energy", Some(r.selector.lastEnergyVariation))
             ELSE UNCHANGED <<picks, prevPicks>>
          /\ selectorCall' = Called("energy", frame, r.selector # selector)
    /\ selectCount' = selectCount + 1
    /\ UNCHANGED notSelectorVars

GetSpectralResponse(frame, scene, draw) ==
    /\ selectCount < MaxSelect
    /\ IF frame.spectralFlux < 40 THEN UNCHANGED <<picks, prevPicks>>
       ELSE Selected("spectral", Shown(getSpectralResponse(selector, frame, scene, draw)))
    /\ selectorCall' = Called("spectral", frame, ~(frame.spectralFlux < 40))
    /\ selectCount' = selectCount + 1
    /\ UNCHANGED selector
    /\ UNCHANGED notSelectorVars

GetSectionResponse(frame, scene, draw) ==
    /\ selectCount < MaxSelect
    /\ IF selector.beatCounter % 4 # 0 THEN UNCHANGED <<picks, prevPicks>>
       ELSE Selected("section", Shown(getSectionResponse(selector, frame, scene, draw)))
    /\ selectorCall' = Called("section", frame, ~(selector.beatCounter % 4 # 0))
    /\ selectCount' = selectCount + 1
    /\ UNCHANGED selector
    /\ UNCHANGED notSelectorVars

\* reset(): the selections before it are forgotten
SelectorReset ==
    /\ selectCount < MaxSelect
    /\ selector' = NewSelector
    /\ picks' = [pool \in Pools |-> Null]
    /\ prevPicks' = [pool \in Pools |-> Null]
    /\ selectorCall' = NoCall
    /\ UNCHANGED selectCount
    /\ UNCHANGED notSelectorVars

SelectorInit ==
    /\ selector = NewSelector
    /\ picks = [pool \in Pools |-> Null]
    /\ prevPicks = [pool \in Pools |-> Null]
    /\ selectCount = 0
    /\ selectorCall = NoCall

SelectorNext ==
    \/ \E frame \in Frames : \E scene \in SelectorScenes : \E draw \in Draws :
          \/ GetBeatResponse(frame, scene, draw)
          \/ GetEnergyResponse(frame, scene, draw)
          \/ GetSpectralResponse(frame, scene, draw)
          \/ GetSectionResponse(frame, scene, draw)
    \/ SelectorReset

----------------------------------------------------------------------------
\* Rounded arithmetic.  quantize() adds a multiple of 60 / bpm to the last
\* beat and getBeatAt() divides the distance from the last beat by 60 / bpm
\* again: whether the two agree depends on how the results are rounded.  A
\* number is counted in units of 2^-FracBits and every operation rounds its
\* exact result to FloatBits significant bits, to nearest, ties to even, as
\* IEEE 754 does with 53 bits; below 2^(FloatBits - FracBits) the quantum
\* stays 2^-FracBits (gradual underflow).

\* the number 1
One == 2 ^ FracBits

\* the distance between neighbouring representable numbers at x
RECURSIVE Quantum(_)
Quantum(x) == IF x < 2 ^ FloatBits THEN 1 ELSE 2 * Quantum(x \div 2)

\* the representable number nearest to n / d, for n >= 0 and d > 0
RoundRatio(n, d) ==
    LET q == Quantum(n \div d)
        k == n \div (d * q)
        r == n % (d * q)
    IN  IF 2 * r < d * q THEN k * q
        ELSE IF 2 * r > d * q THEN (k + 1) * q
        ELSE IF k % 2 = 0 THEN k * q ELSE (k + 1) * q

\* a + b, Math.abs(a - b), a * b and a / b of doubles
FAdd(a, b) == RoundRatio(a + b, 1)
FAbsSub(a, b) == RoundRatio(IF a >= b THEN a - b ELSE b - a, 1)
FMul(a, b) == RoundRatio(a * b, One)
FDiv(a, b) == RoundRatio(a * One, b)
\* Math.round and Math.floor (both exact), as whole numbers
FRound(a) == (2 * a + One) \div (2 * One)
FFloor(a) == a \div One

\* BeatGrid.getBeatAt() on a grid of doubles with at least one beat
getBeatAtRounded(grid, timeSeconds) ==
    LET bs == grid.beats
        n == Len(bs)
        beatInterval_ == RoundRatio(60 * One, grid.bpm)
    IN  IF timeSeconds < bs[1]
        THEN [beat |-> 0, phase |-> Max(0, FDiv(timeSeconds, bs[1]))]
        ELSE IF timeSeconds >= bs[n]
        THEN LET timeSinceLastBeat == FAbsSub(timeSeconds, bs[n])
                 extraBeats == FFloor(FDiv(timeSinceLastBeat, beatInterval_))
             IN  [beat |-> (n - 1) + extraBeats,
                  phase |-> FDiv(timeSinceLastBeat % beatInterval_, beatInterval_)]
        ELSE LET beatIndex == CHOOSE i \in 1 .. n - 1 :
                                  /\ timeSeconds >= bs[i] /\ timeSeconds < bs[i + 1]
                                  /\ \A j \in 1 .. i - 1 :
                                        ~(timeSeconds >= bs[j] /\ timeSeconds < bs[j + 1])
                 phase == FDiv(FAbsSub(timeSeconds, bs[beatIndex]),
                               FAbsSub(bs[beatIndex + 1], bs[beatIndex]))
             IN  [beat |-> beatIndex - 1, phase |-> Max(0, Min(One, phase))]

\* the loop of quantize() over beats[k ..]: the nearest beat so far and its distance
RECURSIVE nearestFrom(_, _, _, _)
nearestFrom(bs, k, timeSeconds, best) ==
    IF k > Len(bs) THEN best
    ELSE LET distance == FAbsSub(timeSeconds, bs[k])
         IN  nearestFrom(bs, k + 1, timeSeconds,
                         IF distance < best.minDistance
                         THEN [nearestBeat |-> bs[k], minDistance |-> distance]
                         ELSE best)

\* BeatGrid.quantize(); threshold is num / den with den a power of two
quantize(grid, timeSeconds, threshold) ==
    LET bs == grid.beats
        n == Len(bs)
        beatInterval_ == RoundRatio(60 * One, grid.bpm)
        analysed == nearestFrom(bs, 1, timeSeconds,
                                [nearestBeat |-> bs[1],
                                 minDistance |-> FAbsSub(timeSeconds, bs[1])])
        lastBeat == bs[n]
        beatsSinceLast == FRound(FDiv(FAbsSub(timeSeconds, lastBeat), beatInterval_))
        extrapolatedBeat == FAdd(lastBeat, FMul(beatsSinceLast * One, beatInterval_))
        distance == FAbsSub(timeSeconds, extrapolatedBeat)
        nearest == IF timeSeconds > lastBeat /\ distance < analysed.minDistance
                   THEN [nearestBeat |-> extrapolatedBeat, minDistance |-> distance]
                   ELSE analysed
        maxSnapDistance == FMul(beatInterval_, RoundRatio(threshold.num * One, threshold.den))
    IN  IF n = 0 THEN timeSeconds
        ELSE IF nearest.minDistance <= maxSnapDistance THEN nearest.nearestBeat
        ELSE timeSeconds

\* the synthetic grid of the pre-analyzer: count beats every 60 / bpm from 0
RoundedGrid(bpm, count) ==
    [bpm |-> bpm, beats |-> [i \in 1 .. count |-> RoundRatio((i - 1) * 60 * One, bpm)]]

\* the grids a BeatGrid is constructed with: 60 / bpm is a power of two at
\* 120 BPM, a short binary fraction at 128 BPM and is rounded at 100 and at
\* 90 BPM
QuantizeGrids ==
    {RoundedGrid(120, 3), RoundedGrid(128, 2), RoundedGrid(100, 3), RoundedGrid(90, 4)}

\* the times quantize() is called with: the doubles up to MaxQuantizeTime seconds
QuantizeTimes == {t \in 0 .. MaxQuantizeTime * One : RoundRatio(t, 1) = t}

\* the snap thresholds it is called with: the default 0.5, and 0.25
Thresholds == {[num |-> 1, den |-> 2], [num |-> 1, den |-> 4]}

\* new BeatGrid(bpm, beats, downbeats)
NewBeatGrid(grid) ==
    /\ quantizeGrid' = grid
    /\ quantizeCall' = Null
    /\ UNCHANGED notGridVars

\* quantize(timeSeconds, threshold), followed by getBeatAt() of what it returned
QuantizeAt(timeSeconds, threshold) ==
    /\ LET result == quantize(quantizeGrid, timeSeconds, threshold)
       IN  quantizeCall' = Some([timeSeconds |-> timeSeconds,
                                 threshold |-> threshold,
                                 result |-> result,
                                 info |-> getBeatAtRounded(quantizeGrid, result)])
    /\ UNCHANGED quantizeGrid
    /\ UNCHANGED notGridVars

GridInit ==
    /\ quantizeGrid = RoundedGrid(120, 3)
    /\ quantizeCall = Null

GridNext ==
    \/ \E grid \in QuantizeGrids : NewBeatGrid(grid)
    \/ \E timeSeconds \in QuantizeTimes : \E threshold \in Thresholds :
          QuantizeAt(timeSeconds, threshold)

----------------------------------------------------------------------------
\* AdvancedAnalyzer.loadAndAnalyze.  The method is async: each await is a
\* step of its own, and a throw rejects the promise it returned.  The
\* sections and the average energy depend on the samples only and are left
\* out of the result.

\* fallback of analyzeBPM
fallbackBpm == 120

\* The files loadAndAnalyze is called with: whether decodeAudioData accepts
\* the data, the duration of the decoded audio in seconds, what the tempo
\* detector reports (Null when it throws) and whether Tone.Player loads it.
AudioFiles ==
    [decodable : BOOLEAN, duration : {0, 7, 30}, tempo : {Null, Some(90), Some(128)},
     playable : BOOLEAN]

\* the beats of generateBeatGrid: t = 0, 60 / bpm, ... while t < duration
beatCount(bpm, duration) == CeilDiv(duration * bpm, 60)

NewLoader ==
    [audioBuffer |-> Null, preAnalysis |-> Null, beatGrid |-> Null, player |-> Null,
     file |-> Null, stage |-> "idle", bpm |-> Null, outcome |-> "none", failedAt |-> "none"]

\* loadAndAnalyze(file) up to its first await of the decoder (the file's
\* bytes are read before that)
LoadAndAnalyze(file) ==
    /\ loadCount < MaxLoads
    /\ loader.stage = "idle"
    /\ loader' = [loader EXCEPT !.file = Some(file), !.stage = "decode",
                                !.bpm = Null, !.outcome = "none", !.failedAt = "none"]
    /\ loadCount' = loadCount + 1
    /\ UNCHANGED notLoadVars

\* decodeAudioData settles: the buffer is stored, or the error is rethrown
LoadDecoded ==
    /\ loader.stage = "decode"
    /\ LET file == loader.file[1]
       IN  IF file.decodable
           THEN loader' = [loader EXCEPT !.audioBuffer = Some(file.duration),
                                         !.stage = "bpm"]
           ELSE loader' = [loader EXCEPT !.stage = "idle", !.outcome = "rejected",
                                         !.failedAt = "decode"]
    /\ UNCHANGED loadCount
    /\ UNCHANGED notLoadVars

\* analyzeBPM settles: the detected tempo, or 120 when the detector threw;
\* generateBeatGrid runs before the next await
LoadBpm ==
    /\ loader.stage = "bpm"
    /\ LET file == loader.file[1]
       IN  loader' = [loader EXCEPT
                        !.bpm = IF file.tempo = Null THEN Some(fallbackBpm) ELSE file.tempo,
                        !.stage = "sections"]
    /\ UNCHANGED loadCount
    /\ UNCHANGED notLoadVars

\* detectSections settles: the results, the BeatGrid and the CueScheduler are
\* stored and the player is set up
LoadSections ==
    /\ loader.stage = "sections"
    /\ LET bpm == loader.bpm[1]
           count == beatCount(bpm, loader.audioBuffer[1])
       IN  loader' = [loader EXCEPT
                        !.preAnalysis = Some([bpm |-> bpm, beats |-> count]),
                        !.beatGrid = Some([bpm |-> bpm, beats |-> count]),
                        !.stage = "player"]
    /\ UNCHANGED loadCount
    /\ UNCHANGED notLoadVars

\* player.load settles: the promise resolves with preAnalysis, or the error
\* is rethrown
LoadPlayer ==
    /\ loader.stage = "player"
    /\ LET file == loader.file[1]
       IN  IF file.playable
           THEN loader' = [loader EXCEPT !.player = Some(file.duration),
                                         !.stage = "idle", !.outcome = "resolved"]
           ELSE loader' = [loader EXCEPT !.stage = "idle", !.outcome = "rejected",
                                         !.failedAt = "player"]
    /\ UNCHANGED loadCount
    /\ UNCHANGED notLoadVars

LoadInit ==
    /\ loader = NewLoader
    /\ loadCount = 0

LoadNext ==
    \/ \E file \in AudioFiles : LoadAndAnalyze(file)
    \/ LoadDecoded
    \/ LoadBpm
    \/ LoadSections
    \/ LoadPlayer

----------------------------------------------------------------------------
\* AdvancedAnalyzer.detectSections.  Times are quarter seconds.  The samples
\* of the buffer are given by the mean square of each half second of channel
\* 0; a window of 2 s is four of them, so the RMS of window i is the root
\* of a quarter of their sum, and the ratio of two window energies is the
\* root of the ratio of the sums.  The comparisons of a normalized energy
\* with 0.7, 0.5 and 0.3 are made on the squares, exactly.

\* 2 second windows, 0.5 second hop
windowSize == 8
hopSize == 2
\* the half seconds of a window
WindowBlocks == windowSize \div hopSize

\* the mean square of a half second of samples
BlockLevels == {0, 10, 100}

\* The audio buffers detectSections is run on: every buffer of up to
\* MaxDuration quarter seconds, and tracks of 32 s with a quiet start, a loud
\* part that sets in with a bang, a middle part, a silence and a loud end.
ShortBuffers ==
    UNION {[duration : {duration}, blocks : [1 .. duration \div hopSize -> BlockLevels]] :
              duration \in 1 .. MaxDuration}
LongBuffers ==
    {[duration |-> 128,
      blocks |-> [b \in 1 .. 64 |->
                     IF b <= quiet THEN 1
                     ELSE IF b = quiet + 1 THEN 400
                     ELSE IF b <= quiet + loud THEN 100
                     ELSE IF b <= 40 THEN 25
                     ELSE IF b <= 50 THEN 0
                     ELSE 100]] : quiet \in {10, 20}, loud \in {1, 2, 6}}
AudioBuffers == ShortBuffers \cup LongBuffers

\* the hops of the loop: t = 0, 0.5, ... while t < duration - windowSize
hopCount(duration) ==
    IF duration > windowSize THEN CeilDiv(duration - windowSize, hopSize) ELSE 0

\* four times the mean square of the window of hop i (i from 0)
windowSum(buffer, i) ==
    SeqSum([b \in 1 .. WindowBlocks |-> buffer.blocks[i + b]])

\* Math.max(...energyProfile), as four times its square
maxSum(buffer) ==
    LET sums == {windowSum(buffer, i) : i \in 0 .. hopCount(buffer.duration) - 1}
    IN CHOOSE m \in sums : \A other \in sums : other <= m

\* the largest r with r * r <= n
ISqrt(n) == CHOOSE r \in 0 .. n : r * r <= n /\ (r + 1) * (r + 1) > n

\* normalizedEnergy[i] > percent / 100 and < percent / 100; a silent buffer
\* gives NaN (0 / 0), of which every comparison is false
EnergyAbove(buffer, i, percent) ==
    /\ maxSum(buffer) > 0
    /\ 10000 * windowSum(buffer, i) > percent * percent * maxSum(buffer)
EnergyBelow(buffer, i, percent) ==
    /\ maxSum(buffer) > 0
    /\ 10000 * windowSum(buffer, i) < percent * percent * maxSum(buffer)

\* normalizedEnergy[i] in hundredths, rounded down (NoValue for NaN)
normalizedEnergy(buffer, i) ==
    IF maxSum(buffer) = 0 THEN NoValue
    ELSE ISqrt((10000 * windowSum(buffer, i)) \div maxSum(buffer))

\* sectionType that calls every loud hop after the first a drop
sectionTypeDropWhileLoud(buffer, i) ==
    LET time == i * hopSize
    IN IF 10 * time < buffer.duration THEN "intro"
       ELSE IF 10 * time > 9 * buffer.duration THEN "outro"
       ELSE IF EnergyAbove(buffer, i, 70)
            THEN IF i > 0 THEN "drop" ELSE "chorus"
       ELSE IF EnergyBelow(buffer, i, 30) THEN "breakdown"
       ELSE "verse"

\* the type of hop i: by its position in the track, then by its energy
sectionType(buffer, i) ==
    LET time == i * hopSize
    IN IF 10 * time < buffer.duration THEN "intro"
       ELSE IF 10 * time > 9 * buffer.duration THEN "outro"
       ELSE IF EnergyAbove(buffer, i, 70)
            THEN IF i > 0 /\ EnergyBelow(buffer, i - 1, 50) THEN "drop" ELSE "chorus"
       ELSE IF EnergyBelow(buffer, i, 30) THEN "breakdown"
       ELSE "verse"

\* a section starts at every hop
sectionChangedAlways(currentSection, type) == TRUE

\* the check for a section change
sectionChanged(currentSection, type) ==
    currentSection = Null \/ currentSection[1].type # type

\* the hops at which the loop starts a section: when it reaches a hop, the
\* section that is open (none at hop 0) has the type of the hop before
sectionStarts(buffer) ==
    {i \in 0 .. hopCount(buffer.duration) - 1 :
        sectionChanged(IF i = 0 THEN Null
                       ELSE Some([type |-> sectionType(buffer, i - 1)]),
                       sectionType(buffer, i))}

\* detectSections(): no sections without an audioBuffer; else one section
\* from each start to the next, the last one to the end of the buffer
detectSections(audioBuffer) ==
    IF audioBuffer = Null THEN << >>
    ELSE LET buffer == audioBuffer[1]
             starts == sectionStarts(buffer)
             count == Cardinality(starts)
             Nth(k) == CHOOSE i \in starts : Cardinality({j \in starts : j < i}) = k - 1
         IN [k \in 1 .. count |->
                [start |-> Nth(k) * hopSize,
                 end |-> IF k < count THEN Nth(k + 1) * hopSize ELSE buffer.duration,
                 type |-> sectionType(buffer, Nth(k)),
                 energy |-> normalizedEnergy(buffer, Nth(k))]]

\* detectSections() on an analyzer that holds audioBuffer; loadAndAnalyze
\* runs it once for the buffer it decoded
DetectSections(audioBuffer) ==
    /\ detectedSections = Null
    /\ sectionBuffer' = audioBuffer
    /\ detectedSections' = Some(detectSections(audioBuffer))
    /\ UNCHANGED notSectionVars

SectionInit ==
    /\ sectionBuffer = Null
    /\ detectedSections = Null

SectionNext ==
    \/ \E buffer \in AudioBuffers : DetectSections(Some(buffer))
    \/ DetectSections(Null)

----------------------------------------------------------------------------

Init == CueInit /\ PlannerInit /\ BeatInit /\ EngineInit /\ SelectorInit /\ GridInit
        /\ SectionInit
        /\ LoadInit

SpecCue == Init /\ [][CueNext]_vars

SpecDisabled == Init /\ [][DisabledNext]_vars

\* the other components do not use the beat grid: one grid is enough
InitOneGrid == Init /\ beats = <<0, 2, 4, 6>>

SpecRegeneration == Init /\ [][RegenerationNext]_vars

SpecPlanner == InitOneGrid /\ [][PlannerNext]_vars

SpecBeat == InitOneGrid /\ [][BeatNext]_vars

SpecEngine == InitOneGrid /\ [][EngineNext]_vars

SpecRateLimit == InitOneGrid /\ [][RateLimitNext]_vars

SpecShowPlan == InitOneGrid /\ [][ShowPlanNext]_vars

SpecSelector == InitOneGrid /\ [][SelectorNext]_vars

SpecGrid == InitOneGrid /\ [][GridNext]_vars

SpecLoad == InitOneGrid /\ [][LoadNext]_vars

SpecSections == InitOneGrid /\ [][SectionNext]_vars

----------------------------------------------------------------------------
\* Claims about the CueScheduler (checked under SpecCue)

\* id is among the cues returned by the update that led to the primed state
Returned(fired, id) == \E k \in 1 .. Len(fired) : fired[k] = id
TimesReturned(fired, id) == Cardinality({ k \in 1 .. Len(fired) : fired[k] = id })

\* C1: a one-shot cue (repeat absent or 0, atBeat = a >= 0) that has not been
\* returned since it was added or the scheduler was last reset is returned by
\* a processed update exactly when that update's beat position is >= a and
\* the previously processed position is < a; once it has been returned it is
\* returned by no later update, and no update returns it twice.  (Over beat
\* positions that never decrease this is: exactly one update returns it, the
\* first one that crosses a.)
C1_OneShotFiresOnCrossingOnly ==
    [][ (cueOp' = "update" /\ enabled) =>
          \A id \in DOMAIN cues :
              (cues[id].repeat = 0 /\ cues[id].atBeat >= 0) =>
                  /\ cues[id].lastFiredBeat = NoBeat =>
                        (Returned(cuesToFire', id) <=>
                            (lastProcessedBeat' >= cues[id].atBeat
                             /\ lastProcessedBeat < cues[id].atBeat))
                  /\ cues[id].lastFiredBeat # NoBeat => ~Returned(cuesToFire', id)
                  /\ TimesReturned(cuesToFire', id) <= 1
      ]_vars

\* C1 witness: the one-shot cue at beat 4.0 fired in an earlier update, and a
\* later update, further on in the track, has been processed without
\* returning it.
C1_Witness ==
    /\ cueOp = "update" /\ enabled
    /\ \E id \in DOMAIN cues :
          /\ cues[id].repeat = 0 /\ cues[id].atBeat = 4 * PhaseRes
          /\ cues[id].lastFiredBeat >= cues[id].atBeat
          /\ lastProcessedBeat > cues[id].lastFiredBeat
          /\ ~Returned(cuesToFire, id)

\* C2: a repeating cue (period R > 0, first beat a) is returned by a processed
\* update if and only if currentBeat >= a and
\* floor((currentBeat - a) / R) > floor((lastBeat - a) / R); one update
\* returns it at most once, however many periods the position advanced.
C2_RepeatingFiresOnBoundaryCrossing ==
    [][ (cueOp' = "update" /\ enabled) =>
          \A id \in DOMAIN cues :
              cues[id].repeat > 0 =>
                  /\ Returned(cuesToFire', id) <=>
                        (/\ lastProcessedBeat' >= cues[id].atBeat
                         /\ (lastProcessedBeat' - cues[id].atBeat) \div cues[id].repeat
                              > (lastProcessedBeat - cues[id].atBeat) \div cues[id].repeat)
                  /\ TimesReturned(cuesToFire', id) <= 1
      ]_vars

\* C2 witness: the last update advanced the position by 4 beats or more, two
\* periods of the cue with atBeat = 0 and repeat = 2 beats, to beat 6 or
\* later, and returned that cue once.
C2_Witness ==
    /\ cueOp = "update" /\ jumped
    /\ lastProcessedBeat >= 6 * PhaseRes
    /\ \E r \in DOMAIN cues :
          /\ cues[r].atBeat = 0 /\ cues[r].repeat = 2 * PhaseRes
          /\ TimesReturned(cuesToFire, r) = 1

----------------------------------------------------------------------------
\* Claims about the ShowPlanner (checked under SpecPlanner)

PlanScenes == plannerPlan[1].scenes
InputSections == analysisInput[1].sections

OrderedNonOverlapping(sections) ==
    /\ \A i \in 1 .. Len(sections) : sections[i].start <= sections[i].end
    /\ \A i \in 1 .. Len(sections) - 1 : sections[i].end <= sections[i + 1].start

ContiguousSections(sections) ==
    \A i \in 1 .. Len(sections) - 1 : sections[i].end = sections[i + 1].start

ContiguousScenes(scenes) ==
    \A i \in 1 .. Len(scenes) - 1 : scenes[i].endTime = scenes[i + 1].startTime

\* C5 as stated: for every ordered, non-overlapping section list createPlan
\* returns one scene per section and the scenes are contiguous.
C5_ScenesContiguousForOrderedSections ==
    (plannerPlan # NoPlan /\ OrderedNonOverlapping(InputSections)) =>
        /\ Len(PlanScenes) = Len(InputSections)
        /\ ContiguousScenes(PlanScenes)

\* C5 amended: createPlan returns exactly one scene per section, in section
\* order, each with its section's start, end and type; so scenes i and i+1
\* are contiguous exactly when sections i and i+1 are, and the whole plan is
\* contiguous when each section ends where the next starts.
C5_ScenesMirrorSections ==
    plannerPlan # NoPlan =>
        /\ Len(PlanScenes) = Len(InputSections)
        /\ \A i \in 1 .. Len(InputSections) :
              /\ PlanScenes[i].startTime = InputSections[i].start
              /\ PlanScenes[i].endTime = InputSections[i].end
              /\ PlanScenes[i].sectionType = InputSections[i].type
        /\ \A i \in 1 .. Len(InputSections) - 1 :
              (PlanScenes[i].endTime = PlanScenes[i + 1].startTime)
                  <=> (InputSections[i].end = InputSections[i + 1].start)
        /\ ContiguousSections(InputSections) => ContiguousScenes(PlanScenes)

\* C5 witness: the plan of the intro/verse/chorus/drop example: four
\* contiguous scenes in section order.
C5_Witness ==
    /\ plannerPlan # NoPlan
    /\ Len(PlanScenes) = 4
    /\ [i \in 1 .. 4 |-> PlanScenes[i].sectionType] = <<"intro", "verse", "chorus", "drop">>
    /\ ContiguousScenes(PlanScenes)
    /\ PlanScenes[1].endTime = 32 /\ PlanScenes[4].endTime = 192

\* the scenes of the current plan whose range contains the queried time
ScenesContaining(time) ==
    IF plannerPlan = NoPlan THEN {}
    ELSE { i \in 1 .. Len(PlanScenes) :
             time >= PlanScenes[i].startTime /\ time < PlanScenes[i].endTime }

PastPlanEnd(time) ==
    /\ plannerPlan # NoPlan
    /\ Len(PlanScenes) > 0
    /\ time >= PlanScenes[Len(PlanScenes)].endTime

FirstContainingOrLast ==
    /\ ScenesContaining(sceneQuery) # {} =>
          /\ sceneAt \in ScenesContaining(sceneQuery)
          /\ \A j \in ScenesContaining(sceneQuery) : sceneAt <= j
    /\ (ScenesContaining(sceneQuery) = {} /\ PastPlanEnd(sceneQuery)) =>
          sceneAt = Len(PlanScenes)

\* C6 as stated: getSceneAt(t) returns the first scene containing t, the last
\* scene if t is past the plan's end, and null exactly when there is no plan
\* or the plan has no scenes.
C6_NullOnlyForEmptyPlan ==
    sceneQuery # NoQuery =>
        /\ FirstContainingOrLast
        /\ sceneAt = 0 <=> (plannerPlan = NoPlan \/ Len(PlanScenes) = 0)

\* C6 amended: getSceneAt(t) returns the first scene containing t, the last
\* scene if no scene contains t and t is at or past the last scene's endTime,
\* and null exactly when there is no plan or no scene contains t and t is
\* not at or past the last scene's endTime (an empty plan, a time before the
\* first scene or in a gap between scenes); getSceneAt(32.5) on the example
\* plan is the verse scene.
C6_NullWhenNoSceneApplies ==
    sceneQuery # NoQuery =>
        /\ FirstContainingOrLast
        /\ sceneAt = 0 <=>
              (\/ plannerPlan = NoPlan
               \/ ScenesContaining(sceneQuery) = {} /\ ~PastPlanEnd(sceneQuery))
        /\ (C5_Witness /\ sceneQuery = 65) => PlanScenes[sceneAt].sectionType = "verse"

\* C6 witness: getSceneAt(32.5) on the example plan returned the second
\* scene, the verse.
C6_Witness ==
    /\ C5_Witness
    /\ sceneQuery = 65
    /\ sceneAt = 2 /\ PlanScenes[sceneAt].sectionType = "verse"

----------------------------------------------------------------------------
\* Claims about the BeatDetector (checked under SpecBeat)

\* C3: every frame of a session (play, pause and seek without stop) has
\* 0 <= beatPhase < 1, and its beatNumber is the previous frame's (0 at the
\* start of the session) plus 1 if the frame is a beat, plus 0 otherwise.
C3_PhaseInRangeBeatNumberMonotone ==
    beatFrame # Null =>
        /\ 0 <= beatFrame[1].beatPhase /\ beatFrame[1].beatPhase < PhaseOne
        /\ beatFrame[1].beatNumber =
              (IF prevBeatFrame = Null THEN 0 ELSE prevBeatFrame[1].beatNumber)
                  + (IF beatFrame[1].isBeat THEN 1 ELSE 0)

----------------------------------------------------------------------------
\* MappingEngine and RuleEvaluator claims.  They describe the last process()
\* call: processed holds what the call was given and the state it found,
\* commands what it returned.

Last == processed[1]

\* which strategy emits a command
DefaultOrigins ==
    {"beat-pulse", "beat-return", "intensity", "tilt", "downbeat-color", "strobe", "pan"}
PlanOrigins ==
    {"scene-wash", "scene-moving-head", "scene-strobe-off"}
    \cup {v.name : v \in Range(BEAT_VARIATIONS) \cup Range(ENERGY_VARIATIONS)
                         \cup Range(SPECTRAL_VARIATIONS) \cup Range(SECTION_VARIATIONS)}
OriginsOf(path) ==
    CASE path = "plan" -> PlanOrigins
      [] path = "style" -> RuleIds
      [] OTHER -> DefaultOrigins

\* the strategy the priority order asks for
ByPriority == IF Last.hadPlan THEN "plan"
              ELSE IF Last.styleProfile # Null THEN "style" ELSE "default"

\* C4: process() runs exactly one strategy, the show-plan path if a plan is
\* loaded, else the style path if a profile is loaded, else the default
\* mapping: every command it returns comes from that strategy, style rules
\* are evaluated only in the style path and the strobe timer is set only in
\* the default path.
C4_OneStrategyByPriority ==
    processed # Null =>
        /\ Last.path = ByPriority
        /\ \A k \in DOMAIN commands : commands[k].origin \in OriginsOf(ByPriority)
        /\ ByPriority # "style" => Last.evals = << >>
        /\ ByPriority # "default" => Last.timers = 0

\* a plan and a profile are both loaded and the plan path emitted commands
C4_Witness ==
    /\ processed # Null
    /\ Last.hadPlan /\ Last.styleProfile # Null
    /\ Last.path = "plan"
    /\ Len(commands) > 0

\* the rules of the profile the call found loaded
LoadedRules == IF Last.styleProfile = Null THEN {} ELSE Range(Last.styleProfile[1].rules)
RuleOf(id) == CHOOSE rule \in UNION {Range(p.rules) : p \in Profiles} : rule.id = id

\* the commands the rule contributed
Contributed(id) == LET Of(c) == c.origin = id IN SelectSeq(commands, Of)

\* C7: in the style path a rule with probability 0 contributes no command,
\* whatever the random draw.
C7_ProbabilityZeroNeverContributes ==
    (processed # Null /\ Last.path = "style") =>
        \A rule \in LoadedRules : rule.probability = 0 => Contributed(rule.id) = << >>

\* the rule contributed exactly one command for each of the fixtures
OnePerFixture(id, fixtures) ==
    /\ Len(Contributed(id)) = Len(fixtures)
    /\ \A i \in DOMAIN fixtures :
          LET For(c) == c.targetId = fixtures[i].id
          IN  CountIn(Contributed(id), For) = 1

\* the id has not evaluated true in the 50 ms before the call
NotRateLimited(id) ==
    \/ Last.lastTrueEval[id] = Null
    \/ Last.time - Last.lastTrueEval[id][1] >= minInterval

\* C8 as stated: in the style path a rule with probability 1 whose trigger the
\* frame satisfies contributes exactly one command for each fixture of its
\* resolved target set.
C8_OneCommandPerResolvedTarget ==
    (processed # Null /\ Last.path = "style") =>
        \A rule \in LoadedRules :
            (rule.probability = 1000 /\ TriggerSatisfied(rule.trigger, Last.frame)) =>
                OnePerFixture(rule.id, resolveTargets(rule.action.targets, Last.fixtures))

\* the fixtures the rule's action commands: for a movement action the moving
\* heads of the resolved target set, and none without a movement pattern
Qualifying(rule, fixtures) ==
    LET resolved == resolveTargets(rule.action.targets, fixtures)
        MovingHead(f) == f.type = "moving_head"
    IN  IF rule.action.type # "movement" THEN resolved
        ELSE IF rule.action.movement = Null THEN << >>
        ELSE SelectSeq(resolved, MovingHead)

\* C8: in the style path a rule with probability 1 whose trigger the frame
\* satisfies, and whose id has not evaluated true in the previous 50 ms,
\* contributes exactly one command for each fixture of its resolved target
\* set; a movement action for each moving head of that set only, and for
\* none if it names no movement pattern.
C8_OneCommandPerQualifyingTarget ==
    (processed # Null /\ Last.path = "style") =>
        \A rule \in LoadedRules :
            (/\ rule.probability = 1000
             /\ TriggerSatisfied(rule.trigger, Last.frame)
             /\ NotRateLimited(rule.id)) =>
                OnePerFixture(rule.id, Qualifying(rule, Last.fixtures))

\* a movement rule with probability 1 fired and commanded the moving heads,
\* fewer than the fixtures of its resolved target set
C8_Witness ==
    /\ processed # Null /\ Last.path = "style"
    /\ \E rule \in LoadedRules :
          /\ rule.probability = 1000 /\ rule.action.type = "movement"
          /\ TriggerSatisfied(rule.trigger, Last.frame) /\ NotRateLimited(rule.id)
          /\ Len(Contributed(rule.id)) > 0
          /\ Len(Contributed(rule.id)) <
                 Len(resolveTargets(rule.action.targets, Last.fixtures))

\* C9: an evaluation of a rule returns true exactly when the frame satisfies
\* its trigger and the RuleEvaluator has not returned true for the same id
\* less than 50 ms earlier; so two true evaluations of an id are at least
\* 50 ms apart, an early one is dropped, and other ids play no part.
C9_RateLimitPerRuleId ==
    processed # Null =>
        \A k \in DOMAIN Last.evals :
            Last.evals[k].result <=>
                /\ TriggerSatisfied(RuleOf(Last.evals[k].id).trigger, Last.frame)
                /\ NotRateLimited(Last.evals[k].id)

\* one call in which a rule is dropped less than 50 ms after it evaluated
\* true, and a rule with another id evaluates true
C9_Witness ==
    /\ processed # Null
    /\ \E k \in DOMAIN Last.evals :
          /\ ~Last.evals[k].result
          /\ TriggerSatisfied(RuleOf(Last.evals[k].id).trigger, Last.frame)
          /\ ~NotRateLimited(Last.evals[k].id)
    /\ \E k \in DOMAIN Last.evals :
          /\ Last.evals[k].result
          /\ Last.lastTrueEval[Last.evals[k].id] = Null

\* the commands for the strobe fixtures
StrobeOn ==
    LET Strobe(c) == \E i \in DOMAIN Last.fixtures :
                         /\ Last.fixtures[i].type = "strobe"
                         /\ Last.fixtures[i].id = c.targetId
    IN  SelectSeq(commands, Strobe)

\* C10: the default path commands the strobe fixtures only on a frame with
\* spectralFlux > 0.7 and only if more than strobeMinInterval ms have passed
\* since the previous strobe trigger.
C10_StrobeOnFluxAndInterval ==
    (processed # Null /\ Last.path = "default" /\ StrobeOn # << >>) =>
        /\ Last.frame.spectralFlux > strobeFluxThreshold
        /\ \/ Last.prevStrobeOn = Null
           \/ Last.time - Last.prevStrobeOn[1] > Last.strobeMinInterval

\* a second strobe trigger, more than strobeMinInterval after the first
C10_Witness ==
    /\ processed # Null /\ Last.path = "default"
    /\ StrobeOn # << >>
    /\ Last.prevStrobeOn # Null

----------------------------------------------------------------------------
\* VariationSelector claims

\* C11: two consecutive selections from the beat pool, with no reset()
\* between them, never pick the variation of the same name.
C11_BeatPoolNeverRepeats ==
    (picks.beat # Null /\ prevPicks.beat # Null) => picks.beat # prevPicks.beat

\* two beat selections in a row since the last reset()
C11_Witness ==
    /\ picks.beat # Null /\ prevPicks.beat # Null
    /\ selector.beatCounter >= 2

\* C12: in the energy, the spectral and the section pool the variation a
\* selection picks is never the one the selection before it picked from the
\* same pool.
C12_OtherPoolsNeverRepeat ==
    \A pool \in {"energy", "spectral", "section"} :
        (picks[pool] # Null /\ prevPicks[pool] # Null) => picks[pool] # prevPicks[pool]

----------------------------------------------------------------------------
\* CueScheduler claims: reset()

\* what addCue was given for the cue: all of it but the firing state
Definition(cue) == [f \in DOMAIN cue \ {"lastFiredBeat", "nextFireBeat"} |-> cue[f]]

\* C13: reset() sets the last processed beat to -1 and every cue's
\* lastFiredBeat to -1 and nextFireBeat to atBeat, leaves the set of cues,
\* their ids and definitions and the enabled flag as they are, and a reset()
\* right after a reset() changes nothing.
C13_ResetOnlyFiringStateIdempotent ==
    [][cueOp' = "reset" =>
          /\ lastProcessedBeat' = NoBeat
          /\ DOMAIN cues' = DOMAIN cues
          /\ \A id \in DOMAIN cues :
                /\ cues'[id].lastFiredBeat = NoBeat
                /\ cues'[id].nextFireBeat = cues[id].atBeat
                /\ Definition(cues'[id]) = Definition(cues[id])
          /\ enabled' = enabled
          /\ cueIdCounter' = cueIdCounter
          /\ cueOp = "reset" => (cues' = cues /\ lastProcessedBeat' = lastProcessedBeat)
      ]_vars

\* reset() after an update that fired a cue which is still in the cue set
C13_Witness ==
    /\ cueOp = "reset"
    /\ \E k \in DOMAIN cuesToFire : cuesToFire[k] \in DOMAIN cues

----------------------------------------------------------------------------
\* CueScheduler claims: generateCuesFromAnalysis()

\* the cue was added by hand: generated cues have other names
AddedByHand(cue) == cue.name \in {def.name : def \in CueDefs}

\* C14: generateCuesFromAnalysis leaves every cue that was added by hand in
\* the cue set, with its id, definition and firing state unchanged.
C14_RegenerationKeepsManualCues ==
    [][cueOp' = "generate" =>
          \A id \in DOMAIN cues :
              AddedByHand(cues[id]) => (id \in DOMAIN cues' /\ cues'[id] = cues[id])
      ]_vars


----------------------------------------------------------------------------
\* Claims about BeatGrid.quantize (checked under SpecGrid)

\* C15: quantize(t, th) either returns t itself, or it returns a beat time
\* that lies within th * (60 / bpm) of t and at which getBeatAt() reports
\* phase 0.
C15_QuantizedTimeIsOnABeat ==
    quantizeCall # Null =>
        LET call == quantizeCall[1]
            maxSnapDistance ==
                FMul(RoundRatio(60 * One, quantizeGrid.bpm),
                     RoundRatio(call.threshold.num * One, call.threshold.den))
        IN  \/ call.result = call.timeSeconds
            \/ /\ FAbsSub(call.timeSeconds, call.result) <= maxSnapDistance
               /\ call.info.phase = 0

----------------------------------------------------------------------------
\* Claims about the default path of MappingEngine.process (checked under SpecEngine)

\* the commands of a list that target every fixture, in order
ToAll(cmds) ==
    LET All(c) == c.targetId = "all" IN SelectSeq(cmds, All)

\* a process() call with no plan and no profile loaded and beat sync on, for
\* a beat frame with rms 0.7
BeatPulseCall ==
    /\ processCount' = processCount + 1
    /\ engine.currentPlan = Null /\ engine.styleProfile = Null /\ engine.beatSync
    /\ processed'[1].frame.isBeat /\ processed'[1].frame.rms = 70

\* C16: in the default path a beat frame with rms 0.7 yields at least two
\* commands to 'all': the first pulses to full intensity, the second returns
\* to the smoothed intensity, which is strictly below the first's.
C16_BeatPulseThenRelease ==
    [][ BeatPulseCall =>
          LET all == ToAll(commands')
          IN  /\ Len(all) >= 2
              /\ all[1].origin = "beat-pulse" /\ all[1].intensity = 1000
              /\ all[2].origin = "beat-return"
              /\ all[2].intensity = engine'.smoothedIntensity
              /\ all[2].intensity < all[1].intensity
      ]_vars

\* such a call was made after an earlier frame had raised the smoothed intensity
C16_Witness ==
    /\ processed # Null /\ processCount >= 2
    /\ ~Last.hadPlan /\ Last.styleProfile = Null
    /\ Last.frame.isBeat /\ Last.frame.rms = 70
    /\ Len(ToAll(commands)) >= 2
    /\ ToAll(commands)[2].intensity >= 700

----------------------------------------------------------------------------
\* Claims about the transitions of a show plan (checked under SpecPlanner)

\* the rows of the transition table, in order: whether a row matches a pair
\* of scenes, and the kind and duration it gives
TransitionRows ==
    << [kind |-> "explosion", durationMs |-> 100],
       [kind |-> "build",     durationMs |-> 300],
       [kind |-> "cut",       durationMs |-> 50],
       [kind |-> "build",     durationMs |-> 400],
       [kind |-> "fade",      durationMs |-> 800],
       [kind |-> "fade",      durationMs |-> 500] >>

RowMatches(row, from, to) ==
    CASE row = 1 -> from.sectionType = "breakdown" /\ to.sectionType = "drop"
      [] row = 2 -> from.sectionType = "buildup"
      [] row = 3 -> to.sectionType = "breakdown"
      [] row = 4 -> from.intensity \in {"low", "medium"} /\ to.intensity \in {"high", "extreme"}
      [] row = 5 -> from.intensity \in {"high", "extreme"} /\ to.intensity \in {"low", "medium"}
      [] OTHER -> TRUE

FirstRow(from, to) ==
    CHOOSE row \in DOMAIN TransitionRows :
        /\ RowMatches(row, from, to)
        /\ \A earlier \in 1 .. row - 1 : ~RowMatches(earlier, from, to)

\* C17: the plan has exactly one transition for each pair of adjacent
\* scenes; it starts at the end of the first scene of the pair and its kind
\* and duration are those of the first matching row of the table.
C17_OneTransitionPerAdjacentPair ==
    plannerPlan # NoPlan =>
        LET scenes == plannerPlan[1].scenes
            transitions == plannerPlan[1].transitions
        IN  /\ Len(transitions) = Max(0, Len(scenes) - 1)
            /\ \A i \in 1 .. Len(transitions) :
                  LET row == TransitionRows[FirstRow(scenes[i], scenes[i + 1])]
                  IN  /\ transitions[i].fromSceneIndex = i
                      /\ transitions[i].toSceneIndex = i + 1
                      /\ transitions[i].startTime = scenes[i].endTime
                      /\ transitions[i].type = row.kind
                      /\ transitions[i].durationMs = row.durationMs

\* a plan whose transitions are a cut, a build into a more intense scene and
\* a build out of a buildup into a breakdown
C17_Witness ==
    /\ plannerPlan # NoPlan
    /\ Len(plannerPlan[1].transitions) = 3
    /\ [i \in 1 .. 3 |-> <<plannerPlan[1].transitions[i].type,
                          plannerPlan[1].transitions[i].durationMs>>]
         = << <<"cut", 50>>, <<"build", 400>>, <<"build", 300>> >>

----------------------------------------------------------------------------
\* Claims about AdvancedAnalyzer.loadAndAnalyze (checked under SpecLoad)

\* the file of the last loadAndAnalyze() call
Loaded == loader.file[1]

\* C18: a load whose decoding or tempo detection fails is not rejected for
\* it, and a load that got past a failure returns a result with bpm 120.
C18_LoadFallsBackTo120 ==
    /\ loader.failedAt \notin {"decode", "bpm"}
    /\ loader.outcome = "resolved" /\ (~Loaded.decodable \/ Loaded.tempo = Null)
          => loader.preAnalysis[1].bpm = 120

----------------------------------------------------------------------------
\* Claims about timers of the MappingEngine (checked under SpecEngine)

\* C19: process() never schedules a detached timer callback: no callback of
\* the engine is ever waiting to run between or after process() calls.
C19_NoDetachedTimer ==
    strobeTimers = 0

----------------------------------------------------------------------------
\* Claims about frames that match nothing (checked under SpecEngine)

\* no registered fixture has one of the types or ids the rule's action names
MatchesNoFixture(rule, fixtures) ==
    /\ rule.action.targets # << >> \/ fixtures = << >>
    /\ \A i \in DOMAIN fixtures :
          /\ fixtures[i].type \notin Range(rule.action.targets)
          /\ fixtures[i].id \notin Range(rule.action.targets)

\* C20: a process() call with a show plan loaded and no scene for the frame's
\* time returns the empty list, and in the style path a rule whose targets
\* match no registered fixture contributes no command.
C20_NoMatchYieldsNoCommands ==
    [][ processCount' = processCount + 1 =>
          LET frame == processed'[1].frame
          IN  /\ (/\ engine.currentPlan # Null
                  /\ getSceneAt(plannerPlan, frame.timestamp \div 500) = 0)
                    => commands' = << >>
              /\ (engine.currentPlan = Null /\ engine.styleProfile # Null)
                    => \A rule \in Range(engine.styleProfile[1].rules) :
                          MatchesNoFixture(rule, engine.fixtures)
                              => \A k \in DOMAIN commands' : commands'[k].origin # rule.id
      ]_vars

\* with fixtures registered, a rule that targets a fixture type nobody has
\* evaluated true in the style path and contributed nothing, while another
\* rule did contribute
C20_Witness ==
    /\ processed # Null /\ Last.path = "style"
    /\ Last.fixtures # << >>
    /\ \E k \in DOMAIN Last.evals :
          /\ Last.evals[k].result
          /\ MatchesNoFixture(RuleOf(Last.evals[k].id), Last.fixtures)
          /\ RuleOf(Last.evals[k].id).probability = 1000
          /\ Contributed(Last.evals[k].id) = << >>
    /\ commands # << >>

----------------------------------------------------------------------------
\* Claims about reset() and the disabled scheduler (checked under SpecCue)

\* C21: a cue that fires once and was returned by the last update() before a
\* reset() is not returned again by the update() that follows the reset().
C21_FiredOneShotStaysQuietAfterReset ==
    [][ (cueOp = "reset" /\ cueOp' = "update") =>
          \A id \in DOMAIN cues :
              (~IsRepeating(cues[id]) /\ Returned(cuesToFire, id))
                  => ~Returned(cuesToFire', id)
      ]_vars

----------------------------------------------------------------------------
\* Claims about the loaded show plan (checked under SpecShowPlan)

\* C22: a process() call made while a plan P is loaded takes its scene from
\* P: if P has a scene for the frame's time the call returns the commands of
\* a scene, never the empty list, whatever the engine's ShowPlanner holds.
C22_SceneComesFromLoadedPlan ==
    [][ (/\ processCount' = processCount + 1
         /\ engine.currentPlan # Null
         /\ getSceneAt(engine.currentPlan, processed'[1].frame.timestamp \div 500) # 0)
            => commands' # << >>
      ]_vars

----------------------------------------------------------------------------
\* Claims about strobes in the show-plan path (checked under SpecEngine)

\* the commands of a list that set the intensity of fixture f, in order: a
\* command addresses f by its id, by its type or as 'all'
IntensityCommandsFor(cmds, f) ==
    LET Sets(c) == c.targetId \in {"all", f.type, f.id} /\ c.intensity # NoValue
    IN  SelectSeq(cmds, Sets)

\* C23: when the scene a process() call works with disables strobes, the
\* last command of the returned list that sets a strobe fixture's intensity
\* sets it to 0.
C23_DisabledStrobesStayOff ==
    [][ (/\ processCount' = processCount + 1
         /\ engine.currentPlan # Null
         /\ getSceneAt(plannerPlan, processed'[1].frame.timestamp \div 500) # 0)
            => LET scene == plannerPlan[1].scenes[
                                getSceneAt(plannerPlan, processed'[1].frame.timestamp \div 500)]
               IN  ~scene.features.useStrobes =>
                      \A i \in DOMAIN engine.fixtures :
                          engine.fixtures[i].type = "strobe" =>
                              LET sets == IntensityCommandsFor(commands', engine.fixtures[i])
                              IN  sets # << >> /\ sets[Len(sets)].intensity = 0
      ]_vars

----------------------------------------------------------------------------
\* Claims about the cadence of the VariationSelector (checked under SpecSelector)

\* C24: of two consecutive getEnergyResponse calls at most one selects, and
\* so of two consecutive getSectionResponse calls; getBeatResponse selects
\* only on a beat frame and getSpectralResponse only when the flux is above 0.4.
C24_SelectionCadence ==
    [][ selectCount' = selectCount + 1 =>
          /\ (selectorCall'.method = "beat" /\ selectorCall'.selected)
                => selectorCall'.isBeat
          /\ (selectorCall'.method = "spectral" /\ selectorCall'.selected)
                => selectorCall'.spectralFlux > 40
          /\ \A method \in {"energy", "section"} :
                (/\ selectorCall.method = method /\ selectorCall.selected
                 /\ selectorCall'.method = method)
                    => ~selectorCall'.selected
      ]_vars

----------------------------------------------------------------------------
\* Claims about the debounce of BeatDetector (checked under SpecBeat)

AnalyzeStep == frameCount' = frameCount + 1
SpacedApart(times) ==
    \A i, j \in DOMAIN times : i < j => times[j] - times[i] >= minBeatInterval

\* C25: a frame is a beat only when the history holds at least 10 energies
\* and at least minBeatInterval ms have passed since the last fired beat; so
\* the fired beats are at least minBeatInterval ms apart, a frame fires at
\* most one beat, and none of the first 9 frames after construction or
\* reset() is a beat.
C25_BeatsAreDebounced ==
    [][ AnalyzeStep =>
          /\ beatFrame'[1].isBeat =>
                /\ Len(detector'.energyHistory) >= minHistory
                /\ detector.beatTimes # << >> =>
                      detector'.lastFrameTime - detector.beatTimes[Len(detector.beatTimes)]
                          >= minBeatInterval
                /\ detector'.beatNumber = detector.beatNumber + 1
                /\ detector'.beatTimes = Append(detector.beatTimes, detector'.lastFrameTime)
          /\ ~beatFrame'[1].isBeat =>
                /\ detector'.beatNumber = detector.beatNumber
                /\ detector'.beatTimes = detector.beatTimes
          /\ SpacedApart(detector'.beatTimes)
          /\ Len(detector'.energyHistory) < minHistory => detector'.beatNumber = 0
      ]_vars

\* a second beat fired, after a frame less than minBeatInterval after the first
C25_Witness ==
    /\ Len(detector.beatTimes) >= 2
    /\ beatFrame # Null /\ beatFrame[1].isBeat
    /\ prevBeatFrame # Null /\ ~prevBeatFrame[1].isBeat

----------------------------------------------------------------------------
\* Claims about detectSections (checked under SpecSections)

Detected == detectedSections[1]

\* C26: the sections returned are in order and do not overlap, each ends
\* where the next starts, neighbours differ in type, every inner boundary is
\* a multiple of the hop, and a list that is not empty starts at 0 and ends
\* at the duration of the buffer.
C26_SectionsTileTheBuffer ==
    detectedSections # Null =>
        /\ \A k \in DOMAIN Detected : Detected[k].start < Detected[k].end
        /\ \A k \in 1 .. Len(Detected) - 1 :
              /\ Detected[k].end = Detected[k + 1].start
              /\ Detected[k].type # Detected[k + 1].type
              /\ Detected[k].end % hopSize = 0
        /\ Detected # << >> =>
              /\ Detected[1].start = 0
              /\ Detected[Len(Detected)].end = sectionBuffer[1].duration

\* sections of several hops each, on a buffer whose length is no multiple of the hop
C26_Witness ==
    /\ detectedSections # Null
    /\ Len(Detected) >= 3
    /\ \E k \in DOMAIN Detected : Detected[k].end - Detected[k].start > hopSize
    /\ sectionBuffer[1].duration % hopSize # 0

\* C30: a section of type 'drop' that is not the last of the list is one hop long.
C30_DropIsOneHop ==
    detectedSections # Null =>
        \A k \in 1 .. Len(Detected) - 1 :
            Detected[k].type = "drop" => Detected[k].end - Detected[k].start = hopSize

\* a drop followed by the chorus of the loud hops after it
C30_Witness ==
    /\ detectedSections # Null
    /\ \E k \in 1 .. Len(Detected) - 1 :
          /\ Detected[k].type = "drop"
          /\ Detected[k + 1].type = "chorus"
          /\ Detected[k + 1].end - Detected[k + 1].start > hopSize

----------------------------------------------------------------------------
\* Claims about the beat position of the BeatGrid (checked under SpecCue)

\* C27: on the scheduler's BeatGrid the beat position beat + phase does not
\* decrease as the time grows, and the phase is in [0, 1), before the first
\* beat, inside the grid and past the last beat.
C27_BeatPositionIsMonotone ==
    \A t1, t2 \in 0 .. MaxTime :
        /\ getBeatAt(beats, beatInterval, t1).phase \in 0 .. PhaseRes - 1
        /\ t1 <= t2 => BeatPosition(beats, beatInterval, t1) <= BeatPosition(beats, beatInterval, t2)

----------------------------------------------------------------------------
\* Claims about the disabled CueScheduler (checked under SpecDisabled)

\* C28: update() on a disabled scheduler returns no cue and leaves the last
\* processed beat and every cue's lastFiredBeat and nextFireBeat as they
\* were; so a non-repeating cue that has not fired and whose atBeat was
\* passed while the scheduler was disabled (the last processed beat is before
\* atBeat, a disabled update() was at or after it) is returned by
\* the first processed update() at or after atBeat.
C28_DisabledUpdateChangesNothing ==
    [][ cueOp' = "update" =>
          /\ ~enabled =>
                /\ cuesToFire' = << >>
                /\ lastProcessedBeat' = lastProcessedBeat
                /\ cues' = cues
          /\ enabled =>
                \A id \in DOMAIN cues :
                    (/\ ~IsRepeating(cues[id])
                     /\ cues[id].lastFiredBeat < cues[id].atBeat
                     /\ lastProcessedBeat < cues[id].atBeat
                     /\ ~skipped.resumed
                     /\ id \in skipped.passed
                     /\ lastProcessedBeat' >= cues[id].atBeat)
                        => Returned(cuesToFire', id)
      ]_vars

\* the first processed update() after a disabled stretch returned a one-shot
\* cue that the disabled updates had passed
C28_Witness ==
    /\ cueOp = "update"
    /\ enabled
    /\ \E id \in DOMAIN cues :
          /\ ~IsRepeating(cues[id])
          /\ Returned(cuesToFire, id)
          /\ skipped.resumed
          /\ id \in skipped.passed

----------------------------------------------------------------------------
\* Claims about the rate limit of the style path (checked under SpecRateLimit)

\* C29: once the RuleEvaluator has returned true for a rule id, the rule
\* contributes no command to a process() call made less than 50 ms later,
\* whether or not its probability draw let it contribute on the earlier call.
C29_WindowConsumedByTrueEvaluation ==
    [][ (processCount' = processCount + 1 /\ processed'[1].path = "style") =>
          \A id \in RuleIds :
              (/\ lastTrueEval[id] # Null
               /\ now' - lastTrueEval[id][1] < minInterval)
                  => \A k \in DOMAIN commands' : commands'[k].origin # id
      ]_vars

\* a rule evaluated true on the call before and its draw failed; less than
\* 50 ms later the frame satisfies its trigger again and it contributes nothing
C29_Witness ==
    /\ processed # Null
    /\ Last.path = "style"
    /\ \E rule \in LoadedRules :
          /\ Last.lastTrueEval[rule.id] = Some(previousCall.time)
          /\ rule.id \notin previousCall.contributed
          /\ Last.time - previousCall.time < minInterval
          /\ rule.probability > 0
          /\ TriggerSatisfied(rule.trigger, Last.frame)
          /\ Contributed(rule.id) = << >>

====
